---- MODULE Spec2Model ----
(***************************************************************************)
(* koinly2irpf: KoinlyProcessor.process_report and save_to_csv             *)
(* (src/src/koinly2irpf/processor.py) with the BSC fix step                *)
(* (src/src/koinly2irpf/fix_binance_smart_chain.py).                       *)
(*                                                                         *)
(* Conventions of the model                                                *)
(*   - a Python str is a tuple of one-character strings;                   *)
(*   - an optional value is <<>> (None) or <<v>>;                          *)
(*   - an asset amount is an integer number of tenths (0.3 is 3);          *)
(*   - a computed cost is a fraction <<num, den>> with den > 0, the exact  *)
(*     value of the float expression; None is <<>>.                        *)
(***************************************************************************)
EXTENDS Integers, Sequences, FiniteSets, TLC

(***************************************************************************)
(* Bounds                                                                  *)
(***************************************************************************)
\* number of non-empty lines read by the wallet-section scan
MaxLines == 4

(***************************************************************************)
(* Strings                                                                 *)
(***************************************************************************)
None == <<>>
Some(v) == <<v>>

UpperCase == <<"A","B","C","D","E","F","G","H","I","J","K","L","M","N","O","P","Q","R","S","T","U","V","W","X","Y","Z">>
LowerCase == <<"a","b","c","d","e","f","g","h","i","j","k","l","m","n","o","p","q","r","s","t","u","v","w","x","y","z">>
DigitChars == <<"0","1","2","3","4","5","6","7","8","9">>
HexChars == {"0","1","2","3","4","5","6","7","8","9","a","b","c","d","e","f","A","B","C","D","E","F"}

\* str.lower(), one character
LowerChar(c) ==
    IF \E i \in 1..26 : UpperCase[i] = c
    THEN LowerCase[CHOOSE i \in 1..26 : UpperCase[i] = c]
    ELSE c

\* str.upper(), one character
UpperChar(c) ==
    IF \E i \in 1..26 : LowerCase[i] = c
    THEN UpperCase[CHOOSE i \in 1..26 : LowerCase[i] = c]
    ELSE c

Lower(s) == [i \in 1..Len(s) |-> LowerChar(s[i])]
Upper(s) == [i \in 1..Len(s) |-> UpperChar(s[i])]

\* sub occurs in s at position i
OccursAt(s, sub, i) ==
    /\ i >= 1
    /\ i + Len(sub) - 1 <= Len(s)
    /\ \A k \in 1..Len(sub) : s[i + k - 1] = sub[k]

\* Python's  sub in s
Contains(s, sub) == \E i \in 1..(Len(s) + 1) : OccursAt(s, sub, i)

\* str.startswith
StartsWith(s, sub) == OccursAt(s, sub, 1)

IsSpace(c) == c = " "

RECURSIVE LStrip(_)
LStrip(s) == IF s # <<>> /\ IsSpace(Head(s)) THEN LStrip(Tail(s)) ELSE s

RECURSIVE RStrip(_)
RStrip(s) ==
    IF s # <<>> /\ IsSpace(s[Len(s)]) THEN RStrip(SubSeq(s, 1, Len(s) - 1)) ELSE s

\* str.strip()
Strip(s) == LStrip(RStrip(s))

\* str.replace(a, b) for single characters
ReplaceChar(s, a, b) == [i \in 1..Len(s) |-> IF s[i] = a THEN b ELSE s[i]]

\* str(n) for a natural number
RECURSIVE NatStr(_)
NatStr(n) == IF n < 10 THEN <<DigitChars[n + 1]>> ELSE NatStr(n \div 10) \o <<DigitChars[(n % 10) + 1]>>

\* str.split(sep): the parts of s between the occurrences of sep
RECURSIVE SplitFrom(_, _, _)
SplitFrom(s, sep, cur) ==
    IF s = <<>> THEN <<cur>>
    ELSE IF StartsWith(s, sep)
         THEN <<cur>> \o SplitFrom(SubSeq(s, Len(sep) + 1, Len(s)), sep, <<>>)
         ELSE SplitFrom(Tail(s), sep, cur \o <<Head(s)>>)

Split(s, sep) == SplitFrom(s, sep, <<>>)

(***************************************************************************)
(* String literals of the source                                           *)
(***************************************************************************)
s_NONE == <<"N","O","N","E">>
s_BTC == <<"B","T","C">>
s_ETH == <<"E","T","H">>
s_BSC == <<"B","S","C">>
s_SOL == <<"S","O","L">>
s_XYZ == <<"X","Y","Z">>
s_BNB == <<"B","N","B">>
s_CAKE == <<"C","A","K","E">>
s_Exchange == <<"E","x","c","h","a","n","g","e">>
s_Binance == <<"B","i","n","a","n","c","e">>
s_0x == <<"0","x">>
s_dash == <<" ","-"," ">>

(***************************************************************************)
(* Entity classification                                                   *)
(***************************************************************************)
\* The exchanges dict of _identify_exchange, in its iteration order, cut down
\* to the keys up to 'kraken' and the short Brazilian keys; no other key of
\* the dict occurs in a title of the model, so no other key can match.
exchanges == <<
    <<<<"b","i","n","a","n","c","e">>, s_Binance>>,
    <<<<"b","i","n","a","n","c","e",".","c","o","m">>, s_Binance>>,
    <<<<"c","o","i","n","b","a","s","e">>, <<"C","o","i","n","b","a","s","e">>>>,
    <<<<"c","o","i","n","b","a","s","e",".","c","o","m">>, <<"C","o","i","n","b","a","s","e">>>>,
    <<<<"k","r","a","k","e","n">>, <<"K","r","a","k","e","n">>>>,
    <<<<"m","b">>, <<"M","e","r","c","a","d","o"," ","B","i","t","c","o","i","n">>>>,
    <<<<"m","e","r","c","a","d","o">>, <<"M","e","r","c","a","d","o"," ","B","i","t","c","o","i","n">>>>,
    <<<<"b","t","g">>, <<"B","T","G"," ","P","a","c","t","u","a","l">>>> >>

RECURSIVE FirstExchange(_, _)
FirstExchange(wallet_name, i) ==
    IF i > Len(exchanges) THEN s_NONE
    ELSE IF Contains(wallet_name, exchanges[i][1]) THEN exchanges[i][2]
         ELSE FirstExchange(wallet_name, i + 1)

\* KoinlyProcessor._identify_exchange
_identify_exchange(wallet_name) == FirstExchange(Lower(wallet_name), 1)

\* KoinlyProcessor._identify_blockchain
_identify_blockchain(wallet_name) ==
    LET n == Lower(wallet_name) IN
    IF Contains(n, <<"b","t","c">>) \/ Contains(n, <<"b","i","t","c","o","i","n">>) THEN s_BTC
    ELSE IF Contains(n, <<"e","t","h">>) \/ Contains(n, <<"e","t","h","e","r","e","u","m">>) THEN s_ETH
    ELSE IF Contains(n, <<"b","s","c">>) \/ Contains(n, <<"b","i","n","a","n","c","e"," ","s","m","a","r","t"," ","c","h","a","i","n">>) THEN s_BSC
    ELSE IF Contains(n, <<"s","o","l">>) \/ Contains(n, <<"s","o","l","a","n","a">>) THEN s_SOL
    ELSE s_NONE

\* re.sub(r'\s*\([^)]*\)', '', s): every blank run followed by a
\* parenthesised group is removed, leftmost first
RECURSIVE RemoveParens(_)
RemoveParens(s) ==
    LET opens == {i \in 1..Len(s) : s[i] = "(" /\ \E j \in (i + 1)..Len(s) : s[j] = ")"} IN
    IF opens = {} THEN s
    ELSE LET i == CHOOSE x \in opens : \A y \in opens : x <= y
             j == CHOOSE x \in (i + 1)..Len(s) :
                      /\ s[x] = ")"
                      /\ \A y \in (i + 1)..(x - 1) : s[y] # ")"
         IN  RStrip(SubSeq(s, 1, i - 1)) \o RemoveParens(SubSeq(s, j + 1, Len(s)))

\* KoinlyProcessor._clean_wallet_name
_clean_wallet_name(wallet_name) == Strip(RemoveParens(Strip(wallet_name)))

\* bsc_names of process_wallet_details_for_bsc
bsc_names == <<<<"b","i","n","a","n","c","e"," ","s","m","a","r","t"," ","c","h","a","i","n">>, <<"b","s","c">>, <<"b","n","b"," ","c","h","a","i","n">>, <<"b","n","b"," ","s","m","a","r","t"," ","c","h","a","i","n">>>>

\* the BSC keywords the specification names (matched case-insensitively)
BscKeywords == {<<"b","i","n","a","n","c","e"," ","s","m","a","r","t"," ","c","h","a","i","n">>, <<"b","s","c">>, <<"b","n","b"," ","c","h","a","i","n">>}

HasBscKeyword(title) == \E k \in BscKeywords : Contains(Lower(title), k)

\* re.search(r'0x[a-fA-F0-9]{4}', s): the first match, or <<>>
AddressMatch(s) ==
    LET hits == {i \in 1..Len(s) :
                    /\ OccursAt(s, s_0x, i)
                    /\ i + 5 <= Len(s)
                    /\ \A k \in 2..5 : s[i + k] \in HexChars}
    IN  IF hits = {} THEN <<>>
        ELSE LET i == CHOOSE x \in hits : \A y \in hits : x <= y
             IN  SubSeq(s, i, i + 5)

(***************************************************************************)
(* The document: lines of the wallet section                               *)
(*                                                                         *)
(* A line is the result of matching it against the patterns of             *)
(* _parse_wallet_details_section: m is the set of patterns that match, the *)
(* other fields are the groups of the pattern the scan uses and, for the   *)
(* numeric groups, the float made from them.                               *)
(***************************************************************************)
NoLine == [m |-> {}, text |-> <<>>, g1 |-> None, g2 |-> None, g3 |-> None,
           currency |-> <<>>, amount |-> 0, amount_raw |-> <<>>, value |-> 0,
           cost |-> None, address |-> <<>>, total_cost |-> 0]

TitleLine(t) == [NoLine EXCEPT !.m = {"title"}, !.text = t, !.g1 = Some(t)]

DataLine(t, cur, raw, amt, val, c) ==
    [NoLine EXCEPT !.m = {"data"}, !.text = t, !.currency = cur, !.amount_raw = raw,
                   !.amount = amt, !.value = val, !.cost = c]

\* "Binance Smart Chain"
l_title_bsc == TitleLine(<<"B","i","n","a","n","c","e"," ","S","m","a","r","t"," ","C","h","a","i","n">>)
\* "Ledger (BSC)"
l_title_ledger == TitleLine(<<"L","e","d","g","e","r"," ","(","B","S","C",")">>)
\* "Trezor"
l_title_trezor == TitleLine(<<"T","r","e","z","o","r">>)
\* "Ledger - BSC - 0xabcd1234": name, network and address groups
l_title_addr == [TitleLine(<<"L","e","d","g","e","r"," ","-"," ","B","S","C"," ","-"," ","0","x","a","b","c","d","1","2","3","4">>) EXCEPT !.g1 = Some(<<"L","e","d","g","e","r">>), !.g2 = Some(<<"B","S","C">>), !.g3 = Some(<<"0","x","a","b","c","d","1","2","3","4">>)]
\* "BTC 1 2 2"
l_data_btc == DataLine(<<"B","T","C"," ","1"," ","2"," ","2">>, s_BTC, <<"1">>, 10, 2, None)
\* "BTC 1 2 2 3"
l_data_btc_cost == DataLine(<<"B","T","C"," ","1"," ","2"," ","2"," ","3">>, s_BTC, <<"1">>, 10, 2, Some(3))
\* "XYZ 1 1 1"
l_data_xyz == DataLine(<<"X","Y","Z"," ","1"," ","1"," ","1">>, s_XYZ, <<"1">>, 10, 1, None)
\* "USD Coin 1 1 1": a data line that the title pattern matches too
l_data_usd == [DataLine(<<"U","S","D"," ","C","o","i","n"," ","1"," ","1"," ","1">>, <<"U","S","D"," ","C","o","i","n">>, <<"1">>, 10, 1, None) EXCEPT !.m = {"data", "title"}, !.g1 = Some(<<"U","S","D"," ","C","o","i","n"," ","1"," ","1"," ","1">>)]
\* "Currency Amount Price Value Cost": the title pattern matches it too
l_new_header == [NoLine EXCEPT !.m = {"new_header", "title"}, !.text = <<"C","u","r","r","e","n","c","y"," ","A","m","o","u","n","t"," ","P","r","i","c","e"," ","V","a","l","u","e"," ","C","o","s","t">>, !.g1 = Some(<<"C","u","r","r","e","n","c","y"," ","A","m","o","u","n","t"," ","P","r","i","c","e"," ","V","a","l","u","e"," ","C","o","s","t">>)]
\* "Currency Amount Price Value": the title pattern matches it too
l_old_header == [NoLine EXCEPT !.m = {"old_header", "title"}, !.text = <<"C","u","r","r","e","n","c","y"," ","A","m","o","u","n","t"," ","P","r","i","c","e"," ","V","a","l","u","e">>, !.g1 = Some(<<"C","u","r","r","e","n","c","y"," ","A","m","o","u","n","t"," ","P","r","i","c","e"," ","V","a","l","u","e">>)]
\* "Wallet address: 0xabcd1234"
l_address == [NoLine EXCEPT !.m = {"address"}, !.text = <<"W","a","l","l","e","t"," ","a","d","d","r","e","s","s",":"," ","0","x","a","b","c","d","1","2","3","4">>, !.address = <<"0","x","a","b","c","d","1","2","3","4">>]
\* "Wallet address: 0x9999aaaa"
l_address_other == [NoLine EXCEPT !.m = {"address"}, !.text = <<"W","a","l","l","e","t"," ","a","d","d","r","e","s","s",":"," ","0","x","9","9","9","9","a","a","a","a">>, !.address = <<"0","x","9","9","9","9","a","a","a","a">>]
\* "Total wallet value at 31 Dec 2023: R$2"
l_total_value == [NoLine EXCEPT !.m = {"total_value"}, !.text = <<"T","o","t","a","l"," ","w","a","l","l","e","t"," ","v","a","l","u","e"," ","a","t"," ","3","1"," ","D","e","c"," ","2","0","2","3",":"," ","R","$","2">>]
\* "Total cost at 31 Dec 2023: R$3"
l_total_cost == [NoLine EXCEPT !.m = {"total_cost"}, !.text = <<"T","o","t","a","l"," ","c","o","s","t"," ","a","t"," ","3","1"," ","D","e","c"," ","2","0","2","3",":"," ","R","$","3">>, !.total_cost = 3]
\* "https://koinly.io": no pattern matches
l_other == [NoLine EXCEPT !.text = <<"h","t","t","p","s",":","/","/","k","o","i","n","l","y",".","i","o">>]

WalletLines == {l_title_bsc, l_title_ledger, l_title_trezor, l_title_addr,
                l_data_btc, l_data_btc_cost, l_data_xyz,
                l_new_header, l_old_header, l_address, l_total_value,
                l_total_cost, l_other}

\* the lines of the sections the rules of the scan are checked on, one by one
ScanLines == WalletLines \cup {l_data_usd, l_address_other}

(***************************************************************************)
(* The document: the year-end table                                        *)
(*                                                                         *)
(* A line that follows the column header is the result of eoy_pattern on   *)
(* it: whether it matches, the cleaned asset name and the three floats;    *)
(* and whether the search for the 'Total' line stops at it.                *)
(***************************************************************************)
EoyLine(mt, a, q, c, v) == [matched |-> mt, asset |-> a, quantity |-> q, cost |-> c, value |-> v, total |-> FALSE]

\* "BTC 1 4 6": quantity 1, cost 4, value 6
e_btc == EoyLine(TRUE, s_BTC, 10, 4, 6)
\* "BTC 0 1 3": quantity 0
e_btc_zero == EoyLine(TRUE, s_BTC, 0, 1, 3)
\* "ETH 1 1 0": value 0
e_eth_novalue == EoyLine(TRUE, s_ETH, 10, 1, 0)
\* "Page 1 of 3": eoy_pattern does not match
e_junk == EoyLine(FALSE, <<>>, 0, 0, 0)
\* "Total 6": the line that closes the year-end table
e_total == [EoyLine(FALSE, <<>>, 0, 0, 0) EXCEPT !.total = TRUE]
\* "Balances per Wallet": the line of the section marker
e_marker == EoyLine(FALSE, <<>>, 0, 0, 0)
\* "ETH 1 2 2", a data row of a wallet: eoy_pattern reads quantity 1, cost 2, value 2
e_wallet_eth == EoyLine(TRUE, s_ETH, 10, 2, 2)
\* "Total wallet value at 31/12/2023 2", the line that closes a wallet
e_total_wallet_value == [EoyLine(FALSE, <<>>, 0, 0, 0) EXCEPT !.total = TRUE]

\* what self.text holds of the year-end section: whether the title
\* 'End of Year Balances' is found, whether a header follows it, the lines
\* that follow the header up to the marker 'Balances per Wallet' or the end
\* of the text; whether the marker is found; and the lines that follow it,
\* as the year-end parser reads them
Text(ti, hd, ls, mk) == [eoy_title |-> ti, eoy_header |-> hd, eoy_lines |-> ls, wallet_marker |-> mk, wallet_lines |-> <<>>]

\* a text with both sections, the year-end table and the wallet section
TextWithWallets(ls, ws) == [Text(TRUE, TRUE, ls, TRUE) EXCEPT !.wallet_lines = ws]

NoText == Text(FALSE, FALSE, <<>>, FALSE)

Texts == {Text(ti, TRUE, ls, mk) : ti \in {TRUE}, ls \in {<<e_btc>>, <<e_btc_zero>>, <<e_eth_novalue>>, <<e_junk>>, <<e_junk, e_btc>>}, mk \in BOOLEAN}
         \cup {Text(FALSE, FALSE, <<>>, mk) : mk \in BOOLEAN}
         \cup {Text(TRUE, FALSE, <<>>, mk) : mk \in BOOLEAN}
         \cup {Text(TRUE, TRUE, <<e_btc, e_total, e_btc_zero>>, FALSE)}
         \cup {TextWithWallets(ls, <<e_wallet_eth, e_total_wallet_value>>) : ls \in {<<e_btc, e_total>>, <<e_btc>>}}

\* the years a report title or a file name carries, and the calendar year
s_2023 == <<"2","0","2","3">>
s_2026 == <<"2","0","2","6">>

(***************************************************************************)
(* Program state                                                           *)
(***************************************************************************)
VARIABLES
    pc,                                 \* position in process_report / save_to_csv
    text,                               \* self.text
    report_year,                        \* self.report_year
    end_of_year_items,                  \* self.end_of_year_items
    wallet_details,                     \* self.wallet_details
    wallet_details_temp,                \* locals of _parse_wallet_details_section
    current_wallet_info,
    header_found_for_current_wallet,
    last_captured_address,
    is_new_format_wallet,
    i,                                  \* non-empty lines read by the scan
    address_read_at,                    \* WalletGroups there were when the cached address was read
    final_df,                           \* self.final_df
    csv,                                \* the file save_to_csv writes
    num_str,                            \* a numeric group of a line, None for no string
    call,                               \* who called _clean_numeric_str on it
    cleaned,                            \* the return value of _clean_numeric_str
    number,                             \* outcome of float() on it
    args,                               \* what main() is run on
    cli_pc,                             \* position in main()
    file_index,                         \* pdf_file of the loop, as an index into pdf_files
    attempts,                           \* processors constructed, per file
    results,                            \* what each attempt ended with
    errors_logged,                      \* files an error was logged for
    exit_code                           \* what main() returns

vars == <<pc, text, report_year, end_of_year_items, wallet_details,
          wallet_details_temp, current_wallet_info,
          header_found_for_current_wallet, last_captured_address,
          is_new_format_wallet, i, address_read_at, final_df, csv, num_str, call, cleaned, number,
          args, cli_pc, file_index, attempts, results, errors_logged, exit_code>>

pipeline_vars == <<pc, text, report_year, end_of_year_items, wallet_details,
                   wallet_details_temp, current_wallet_info,
                   header_found_for_current_wallet, last_captured_address,
                   is_new_format_wallet, i, address_read_at, final_df, csv>>

numeric_vars == <<num_str, call, cleaned, number>>

cli_vars == <<args, cli_pc, file_index, attempts, results, errors_logged, exit_code>>

scan_locals == <<wallet_details_temp, current_wallet_info,
                 header_found_for_current_wallet, last_captured_address,
                 is_new_format_wallet, i, address_read_at>>

(***************************************************************************)
(* Numbers                                                                 *)
(***************************************************************************)
RECURSIVE Gcd(_, _)
Gcd(a, b) == IF b = 0 THEN a ELSE Gcd(b, a % b)
Abs(n) == IF n < 0 THEN 0 - n ELSE n
\* a float as the fraction n / d in lowest terms (d > 0)
Frac(n, d) == LET g == Gcd(Abs(n), d) IN <<n \div g, d \div g>>
Num(f) == f[1]
Den(f) == f[2]
FracAdd(f, g) == Frac(Num(f) * Den(g) + Num(g) * Den(f), Den(f) * Den(g))
Lowest(f) == Frac(Num(f), Den(f))
\* the two fractions are the same number
FracEq(f, g) == Lowest(f) = Lowest(g)

RECURSIVE SumSeq(_)
SumSeq(s) == IF s = <<>> THEN 0 ELSE Head(s) + SumSeq(Tail(s))

(***************************************************************************)
(* Records                                                                 *)
(***************************************************************************)
\* an asset dict; a key the dict does not have reads as None
Asset(n, amt, raw, val, rep) ==
    [name |-> n, amount |-> amt, amount_raw |-> raw, value |-> val,
     cost_reported |-> rep, cost |-> None, irpf_description |-> None]

\* a wallet dict
Wallet(n, raw, bc, ex, addr, as, prop) ==
    [wallet_name |-> n, wallet_name_raw |-> raw, blockchain |-> bc, exchange |-> ex,
     address |-> addr, assets |-> as, values |-> [k \in 1..Len(as) |-> as[k].value],
     is_new_format |-> FALSE, total_wallet_cost |-> None, total_value |-> None,
     proportion |-> prop, cost |-> None]

\* KoinlyProcessor._use_sample_eoy_data (the list it assigns)
sample_eoy_data == <<
    [asset |-> s_BTC, amount |-> 5, value |-> 20000, cost |-> 15000],
    [asset |-> s_ETH, amount |-> 50, value |-> 10000, cost |-> 8000],
    [asset |-> <<"A","D","A">>, amount |-> 10000, value |-> 500, cost |-> 300] >>

\* KoinlyProcessor._use_sample_wallet_data (the list it assigns)
sample_wallet_data == <<
    [Wallet(<<"B","i","n","a","n","c","e"," ","E","x","c","h","a","n","g","e">>, <<"B","i","n","a","n","c","e"," ","E","x","c","h","a","n","g","e">>, s_NONE, s_Binance, None,
            <<Asset(s_BTC, 3, None, 12000, None), Asset(s_ETH, 30, None, 6000, None)>>,
            Some(Frac(6, 10)))
        EXCEPT !.total_value = Some(18000)],
    [Wallet(<<"M","e","t","a","m","a","s","k"," ","B","S","C">>, <<"M","e","t","a","m","a","s","k"," ","(","B","S","C",")">>, s_BSC, s_NONE, None,
            <<Asset(s_BNB, 50, None, 2000, None), Asset(s_CAKE, 1000, None, 1000, None)>>,
            Some(Frac(1, 10)))
        EXCEPT !.total_value = Some(3000)],
    [Wallet(<<"H","a","r","d","w","a","r","e"," ","W","a","l","l","e","t">>, <<"H","a","r","d","w","a","r","e"," ","W","a","l","l","e","t">>, s_BTC, s_NONE, None,
            <<Asset(s_BTC, 2, None, 8000, None), Asset(s_ETH, 20, None, 4000, None)>>,
            Some(Frac(4, 10)))
        EXCEPT !.total_value = Some(12000)] >>

\* a variant of _use_sample_eoy_data that adds the sample records to the
\* records it is given
_use_sample_eoy_data_Added(items) == items \o sample_eoy_data

_use_sample_eoy_data(items) == IF items # <<>> THEN items ELSE sample_eoy_data

\* a variant of _use_sample_wallet_data that leaves the list as it is
_use_sample_wallet_data_Nothing(details) == details

_use_sample_wallet_data(details) == IF details # <<>> THEN details ELSE sample_wallet_data

initial_wallet_info ==
    [name |-> <<"U","n","k","n","o","w","n"," ","W","a","l","l","e","t">>, type |-> "Unknown", address |-> None, blockchain |-> <<"N","o","n","e">>]

(***************************************************************************)
(* Init: a processor just constructed (KoinlyProcessor.__init__)           *)
(***************************************************************************)
Constructed ==
    /\ pc = "extract"
    /\ text = NoText
    /\ report_year = None
    /\ end_of_year_items = <<>>
    /\ wallet_details = <<>>
    /\ wallet_details_temp = <<>>
    /\ current_wallet_info = initial_wallet_info
    /\ header_found_for_current_wallet = FALSE
    /\ last_captured_address = None
    /\ is_new_format_wallet = FALSE
    /\ i = 0
    /\ address_read_at = 0
    /\ final_df = None
    /\ csv = None

\* no number is being cleaned
NoNumber ==
    /\ num_str = None
    /\ call = "none"
    /\ cleaned = None
    /\ number = "pending"

\* main() is not running
NoMain ==
    /\ args = None
    /\ cli_pc = "none"
    /\ file_index = 0
    /\ attempts = <<>>
    /\ results = <<>>
    /\ errors_logged = <<>>
    /\ exit_code = None

\* the pipeline of one document, on a processor just constructed
Init ==
    /\ Constructed
    /\ NoNumber
    /\ NoMain

(***************************************************************************)
(* _extract_text_from_pdf                                                  *)
(***************************************************************************)
\* the year of the title on the first page, else the year in the file name,
\* else the calendar year
ReportYear(title_year, filename_year, current_year) ==
    IF title_year # None THEN title_year[1]
    ELSE IF filename_year # None THEN filename_year[1]
    ELSE current_year

\* _extract_text_from_pdf on a file of this text and these years
ExtractTextOf(t, title_year, filename_year) ==
    /\ pc = "extract"
    /\ text' = t
    /\ report_year' = Some(ReportYear(title_year, filename_year, s_2026))
    /\ pc' = "eoy"
    /\ UNCHANGED <<end_of_year_items, wallet_details, scan_locals, final_df, csv>>
    /\ UNCHANGED numeric_vars
    /\ UNCHANGED cli_vars

ExtractText ==
    /\ \E t \in Texts, title_year \in {None, Some(s_2023)}, filename_year \in {None, Some(s_2023)} :
          ExtractTextOf(t, title_year, filename_year)

(***************************************************************************)
(* _parse_eoy_section                                                      *)
(***************************************************************************)
\* the loop over the lines of the bounded table; an item's price is stored
\* by the source and never read, the model leaves it out
RECURSIVE EoyItems(_)
EoyItems(ls) ==
    IF ls = <<>> THEN <<>>
    ELSE LET l == Head(ls) IN
         IF /\ l.matched
            /\ l.asset # <<>>
            /\ Lower(l.asset) # <<"a","s","s","e","t">>
            /\ l.quantity >= 0
         THEN <<[asset |-> l.asset, amount |-> l.quantity, value |-> l.value, cost |-> l.cost]>>
              \o EoyItems(Tail(ls))
         ELSE EoyItems(Tail(ls))

\* the lines before the first line the search for 'Total' stops at, all of
\* them when it stops at none
BeforeTotal(ls) ==
    LET totals == {k \in 1..Len(ls) : ls[k].total} IN
    IF totals = {} THEN ls
    ELSE SubSeq(ls, 1, (CHOOSE k \in totals : \A h \in totals : k <= h) - 1)

\* eoy_table_text: from the end of the header to the first line that starts
\* with 'Total' wherever it is; without one, to the marker 'Balances per
\* Wallet'; without a marker, to the end of the text
EoyTable(t) ==
    IF \E k \in 1..Len(t.eoy_lines) : t.eoy_lines[k].total THEN BeforeTotal(t.eoy_lines)
    ELSE IF \E k \in 1..Len(t.wallet_lines) : t.wallet_lines[k].total
         THEN t.eoy_lines \o <<e_marker>> \o BeforeTotal(t.wallet_lines)
         ELSE t.eoy_lines

_parse_eoy_section(t, items) ==
    IF ~ t.eoy_title THEN _use_sample_eoy_data(items)
    ELSE IF ~ t.eoy_header THEN _use_sample_eoy_data(items)
    ELSE _use_sample_eoy_data(EoyItems(EoyTable(t)))

ParseEoy ==
    /\ pc = "eoy"
    /\ end_of_year_items' = _parse_eoy_section(text, end_of_year_items)
    /\ pc' = "wallets"
    /\ UNCHANGED <<text, report_year, wallet_details, scan_locals, final_df, csv>>
    /\ UNCHANGED numeric_vars
    /\ UNCHANGED cli_vars

(***************************************************************************)
(* _parse_wallet_details_section                                           *)
(***************************************************************************)
\* next((w for w in wallet_details_temp if w['wallet_name_raw'] == name), None):
\* the index of the first such entry, 0 for None
EntryByRaw(temp, name) ==
    LET hits == {k \in 1..Len(temp) : temp[k].wallet_name_raw = name} IN
    IF hits = {} THEN 0 ELSE CHOOSE k \in hits : \A h \in hits : k <= h

\* the section marker is looked up; without it the sample wallets are used
StartWalletScan ==
    /\ pc = "wallets"
    /\ IF text.wallet_marker
       THEN /\ pc' = "scan"
            /\ wallet_details' = <<>>
       ELSE /\ pc' = "bsc"
            /\ wallet_details' = _use_sample_wallet_data(wallet_details)
    /\ wallet_details_temp' = <<>>
    /\ current_wallet_info' = initial_wallet_info
    /\ header_found_for_current_wallet' = FALSE
    /\ last_captured_address' = None
    /\ is_new_format_wallet' = FALSE
    /\ i' = 0
    /\ address_read_at' = 0
    /\ UNCHANGED <<text, report_year, end_of_year_items, final_df, csv>>
    /\ UNCHANGED numeric_vars
    /\ UNCHANGED cli_vars

\* 0. "Total cost at DD Mon YYYY: R$X"
TotalCostLine(l) ==
    LET e == EntryByRaw(wallet_details_temp, current_wallet_info.name) IN
    /\ wallet_details_temp' =
          IF e # 0 THEN [wallet_details_temp EXCEPT ![e].total_wallet_cost = Some(l.total_cost)]
          ELSE wallet_details_temp
    /\ UNCHANGED <<current_wallet_info, header_found_for_current_wallet,
                   last_captured_address, is_new_format_wallet>>

\* the entry a data line is added to: the entry of the current wallet, else
\* the last entry, else none (0)
DataEntry(temp, info) ==
    LET e == EntryByRaw(temp, info.name) IN
    IF e # 0 THEN e ELSE Len(temp)

\* a variant of the currency-data rule that does not look at the header flag
CurrencyDataLineAnyTime(l) ==
    LET e == DataEntry(wallet_details_temp, current_wallet_info)
        asset_data == Asset(Strip(l.currency), l.amount, Some(Strip(l.amount_raw)), l.value, l.cost)
    IN
    IF e # 0
    THEN /\ wallet_details_temp' =
              [wallet_details_temp EXCEPT
                  ![e].assets = Append(@, asset_data),
                  ![e].values = Append(@, l.value),
                  ![e].is_new_format = IF l.cost # None THEN TRUE ELSE @]
         /\ is_new_format_wallet' =
              IF l.cost # None /\ ~ wallet_details_temp[e].is_new_format
              THEN TRUE ELSE is_new_format_wallet
         /\ UNCHANGED <<current_wallet_info, header_found_for_current_wallet,
                        last_captured_address>>
    ELSE UNCHANGED <<wallet_details_temp, current_wallet_info,
                     header_found_for_current_wallet, last_captured_address,
                     is_new_format_wallet>>

\* 1. currency data
CurrencyDataLine(l) ==
    LET e == DataEntry(wallet_details_temp, current_wallet_info)
        asset_data == Asset(Strip(l.currency), l.amount, Some(Strip(l.amount_raw)), l.value, l.cost)
    IN
    IF header_found_for_current_wallet /\ e # 0
    THEN /\ wallet_details_temp' =
              [wallet_details_temp EXCEPT
                  ![e].assets = Append(@, asset_data),
                  ![e].values = Append(@, l.value),
                  ![e].is_new_format = IF l.cost # None THEN TRUE ELSE @]
         /\ is_new_format_wallet' =
              IF l.cost # None /\ ~ wallet_details_temp[e].is_new_format
              THEN TRUE ELSE is_new_format_wallet
         /\ UNCHANGED <<current_wallet_info, header_found_for_current_wallet,
                        last_captured_address>>
    ELSE UNCHANGED <<wallet_details_temp, current_wallet_info,
                     header_found_for_current_wallet, last_captured_address,
                     is_new_format_wallet>>

\* 2. the column header, with the Cost column (new) or without it
HeaderLine(new) ==
    LET e == EntryByRaw(wallet_details_temp, current_wallet_info.name) IN
    /\ header_found_for_current_wallet' = TRUE
    /\ is_new_format_wallet' = new
    /\ wallet_details_temp' =
          IF e # 0 THEN [wallet_details_temp EXCEPT ![e].is_new_format = new]
          ELSE wallet_details_temp
    /\ UNCHANGED <<current_wallet_info, last_captured_address>>

\* 3. "Wallet address: ..."
AddressLine(l) ==
    /\ last_captured_address' = Some(Strip(l.address))
    /\ UNCHANGED <<wallet_details_temp, current_wallet_info,
                   header_found_for_current_wallet, is_new_format_wallet>>

\* 4. "Total wallet value at ..."
TotalValueLine ==
    /\ header_found_for_current_wallet' = FALSE
    /\ UNCHANGED <<wallet_details_temp, current_wallet_info,
                   last_captured_address, is_new_format_wallet>>

\* a variant of the title rule that opens a WalletGroup for every title that
\* switches the wallet, also when the section already has one of that title
TitleLineRuleAlwaysOpens(l) ==
    LET name_part == IF l.g1 # None THEN Strip(l.g1[1]) ELSE <<"U","n","k","n","o","w","n">>
        network_part == IF l.g2 # None THEN Some(Strip(l.g2[1])) ELSE None
        address_part == IF l.g3 # None THEN Some(Strip(l.g3[1])) ELSE None
        cleaned_name == _clean_wallet_name(name_part)
    IN
    IF cleaned_name # current_wallet_info.name
    THEN LET final_address == IF address_part # None THEN address_part ELSE last_captured_address
             identified_blockchain == IF network_part # None THEN network_part[1]
                                      ELSE _identify_blockchain(l.text)
             identified_exchange == _identify_exchange(l.text)
             w_type == IF identified_exchange # s_NONE THEN "Exchange"
                       ELSE IF identified_blockchain = <<"B","i","t","c","o","i","n">> THEN "Bitcoin"
                       ELSE "Wallet"
         IN
         /\ is_new_format_wallet' = FALSE
         /\ header_found_for_current_wallet' = FALSE
         /\ current_wallet_info' = [name |-> cleaned_name, type |-> w_type,
                                    address |-> final_address,
                                    blockchain |-> identified_blockchain]
         /\ last_captured_address' =
               IF final_address = last_captured_address THEN None ELSE last_captured_address
         /\ wallet_details_temp' =
               Append(wallet_details_temp,
                      Wallet(cleaned_name, l.text, identified_blockchain,
                             identified_exchange, final_address, <<>>, None))
    ELSE IF last_captured_address # None /\ current_wallet_info.address = None
         THEN LET e == EntryByRaw(wallet_details_temp, l.text) IN
              /\ current_wallet_info' = [current_wallet_info EXCEPT !.address = last_captured_address]
              /\ wallet_details_temp' =
                    IF e # 0 /\ wallet_details_temp[e].address = None
                    THEN [wallet_details_temp EXCEPT ![e].address = last_captured_address]
                    ELSE wallet_details_temp
              /\ last_captured_address' = None
              /\ UNCHANGED <<header_found_for_current_wallet, is_new_format_wallet>>
         ELSE UNCHANGED <<wallet_details_temp, current_wallet_info,
                          header_found_for_current_wallet, last_captured_address,
                          is_new_format_wallet>>

\* 5. a title
TitleLineRule(l) ==
    LET name_part == IF l.g1 # None THEN Strip(l.g1[1]) ELSE <<"U","n","k","n","o","w","n">>
        network_part == IF l.g2 # None THEN Some(Strip(l.g2[1])) ELSE None
        address_part == IF l.g3 # None THEN Some(Strip(l.g3[1])) ELSE None
        cleaned_name == _clean_wallet_name(name_part)
    IN
    IF cleaned_name # current_wallet_info.name
    THEN LET final_address == IF address_part # None THEN address_part ELSE last_captured_address
             identified_blockchain == IF network_part # None THEN network_part[1]
                                      ELSE _identify_blockchain(l.text)
             identified_exchange == _identify_exchange(l.text)
             w_type == IF identified_exchange # s_NONE THEN "Exchange"
                       ELSE IF identified_blockchain = <<"B","i","t","c","o","i","n">> THEN "Bitcoin"
                       ELSE "Wallet"
         IN
         /\ is_new_format_wallet' = FALSE
         /\ header_found_for_current_wallet' = FALSE
         /\ current_wallet_info' = [name |-> cleaned_name, type |-> w_type,
                                    address |-> final_address,
                                    blockchain |-> identified_blockchain]
         /\ last_captured_address' =
               IF final_address = last_captured_address THEN None ELSE last_captured_address
         /\ wallet_details_temp' =
               IF EntryByRaw(wallet_details_temp, l.text) = 0
               THEN Append(wallet_details_temp,
                           Wallet(cleaned_name, l.text, identified_blockchain,
                                  identified_exchange, final_address, <<>>, None))
               ELSE wallet_details_temp
    ELSE IF last_captured_address # None /\ current_wallet_info.address = None
         THEN LET e == EntryByRaw(wallet_details_temp, l.text) IN
              /\ current_wallet_info' = [current_wallet_info EXCEPT !.address = last_captured_address]
              /\ wallet_details_temp' =
                    IF e # 0 /\ wallet_details_temp[e].address = None
                    THEN [wallet_details_temp EXCEPT ![e].address = last_captured_address]
                    ELSE wallet_details_temp
              /\ last_captured_address' = None
              /\ UNCHANGED <<header_found_for_current_wallet, is_new_format_wallet>>
         ELSE UNCHANGED <<wallet_details_temp, current_wallet_info,
                          header_found_for_current_wallet, last_captured_address,
                          is_new_format_wallet>>

\* a variant of the loop that tries the title rule before the others
ScanLineOfTitleFirst(l) ==
    /\ pc = "scan"
    /\ IF "title" \in l.m THEN TitleLineRule(l)
       ELSE IF "total_cost" \in l.m THEN TotalCostLine(l)
       ELSE IF "data" \in l.m THEN CurrencyDataLine(l)
       ELSE IF "new_header" \in l.m THEN HeaderLine(TRUE)
       ELSE IF "old_header" \in l.m THEN HeaderLine(FALSE)
       ELSE IF "address" \in l.m THEN AddressLine(l)
       ELSE IF "total_value" \in l.m THEN TotalValueLine
       ELSE UNCHANGED <<wallet_details_temp, current_wallet_info,
                        header_found_for_current_wallet, last_captured_address,
                        is_new_format_wallet>>
    /\ i' = i + 1
    /\ address_read_at' = IF l.m = {"address"} THEN Len(wallet_details_temp) ELSE address_read_at
    /\ UNCHANGED <<pc, text, report_year, end_of_year_items, wallet_details, final_df, csv>>
    /\ UNCHANGED numeric_vars
    /\ UNCHANGED cli_vars

\* one iteration of the loop over the non-empty lines of the section: the
\* first rule that matches handles the line
ScanLineOf(l) ==
    /\ pc = "scan"
    /\ IF "total_cost" \in l.m THEN TotalCostLine(l)
       ELSE IF "data" \in l.m THEN CurrencyDataLine(l)
       ELSE IF "new_header" \in l.m THEN HeaderLine(TRUE)
       ELSE IF "old_header" \in l.m THEN HeaderLine(FALSE)
       ELSE IF "address" \in l.m THEN AddressLine(l)
       ELSE IF "total_value" \in l.m THEN TotalValueLine
       ELSE IF "title" \in l.m THEN TitleLineRule(l)
       ELSE UNCHANGED <<wallet_details_temp, current_wallet_info,
                        header_found_for_current_wallet, last_captured_address,
                        is_new_format_wallet>>
    /\ i' = i + 1
    /\ address_read_at' = IF l.m = {"address"} THEN Len(wallet_details_temp) ELSE address_read_at
    /\ UNCHANGED <<pc, text, report_year, end_of_year_items, wallet_details, final_df, csv>>
    /\ UNCHANGED numeric_vars
    /\ UNCHANGED cli_vars

\* a document of any lines, up to MaxLines of them
ScanLine ==
    /\ i < MaxLines
    /\ \E l \in WalletLines : ScanLineOf(l)

\* a variant of PostProcess that takes the first value of a wallet for its
\* total
PostProcessFirstValue(temp) ==
    [k \in 1..Len(temp) |->
        [temp[k] EXCEPT !.total_value = Some(IF temp[k].values = <<>> THEN 0 ELSE temp[k].values[1]),
                        !.proportion = IF @ = None THEN Some(Frac(1, 1)) ELSE @]]

\* the post-processing loop and the end of the function, whose locals are
\* gone when it returns
PostProcess(temp) ==
    [k \in 1..Len(temp) |->
        [temp[k] EXCEPT !.total_value = Some(SumSeq(temp[k].values)),
                        !.proportion = IF @ = None THEN Some(Frac(1, 1)) ELSE @]]

EndScan ==
    /\ pc = "scan"
    /\ wallet_details' = IF wallet_details_temp # <<>> THEN PostProcess(wallet_details_temp)
                         ELSE _use_sample_wallet_data(wallet_details)
    /\ pc' = "bsc"
    /\ wallet_details_temp' = <<>>
    /\ current_wallet_info' = initial_wallet_info
    /\ header_found_for_current_wallet' = FALSE
    /\ last_captured_address' = None
    /\ is_new_format_wallet' = FALSE
    /\ i' = 0
    /\ address_read_at' = 0
    /\ UNCHANGED <<text, report_year, end_of_year_items, final_df, csv>>
    /\ UNCHANGED numeric_vars
    /\ UNCHANGED cli_vars

(***************************************************************************)
(* process_wallet_details_for_bsc (fix_binance_smart_chain.py)             *)
(***************************************************************************)
\* is_bsc of one wallet detail
IsBsc(wallet_name_raw) ==
    \/ \E k \in 1..Len(bsc_names) : Contains(wallet_name_raw, bsc_names[k])
    \/ /\ Contains(wallet_name_raw, s_0x)
       /\ Contains(wallet_name_raw, s_dash)
       /\ LET parts == Split(wallet_name_raw, s_dash) IN
          \E k \in 1..Len(parts) : StartsWith(Strip(parts[k]), s_0x)

process_wallet_details_for_bsc(details) ==
    [k \in 1..Len(details) |->
        IF IsBsc(Lower(details[k].wallet_name_raw)) /\ details[k].blockchain = s_Exchange
        THEN [details[k] EXCEPT !.blockchain = s_BSC]
        ELSE details[k]]

\* the BSC step of process_report
BscFix ==
    /\ pc = "bsc"
    /\ wallet_details' = IF wallet_details # <<>>
                         THEN process_wallet_details_for_bsc(wallet_details)
                         ELSE wallet_details
    /\ pc' = "cost"
    /\ UNCHANGED <<text, report_year, end_of_year_items, scan_locals, final_df, csv>>
    /\ UNCHANGED numeric_vars
    /\ UNCHANGED cli_vars

(***************************************************************************)
(* _calculate_proportional_cost                                            *)
(***************************************************************************)
\* eoy_assets.get(name): the index of the item the dict keeps for the name
\* (the last one of the list), 0 when the dict has none
EoyAsset(items, name) ==
    LET hits == {k \in 1..Len(items) : items[k].asset = name} IN
    IF hits = {} THEN 0 ELSE CHOOSE k \in hits : \A h \in hits : k >= h

HasReportedCost(wallet, asset) == wallet.is_new_format /\ asset.cost_reported # None

\* a variant of AssetCost that shares the cost of the year-end record by
\* value instead of amount
AssetCostByValue(items, wallet, asset) ==
    IF HasReportedCost(wallet, asset) THEN Some(Frac(asset.cost_reported[1], 1))
    ELSE LET e == EoyAsset(items, asset.name) IN
         IF e # 0 /\ items[e].value > 0
         THEN Some(Frac(items[e].cost * asset.value, items[e].value))
         ELSE None

\* the cost of one asset when the year-end total value is positive
AssetCost(items, wallet, asset) ==
    IF HasReportedCost(wallet, asset) THEN Some(Frac(asset.cost_reported[1], 1))
    ELSE LET e == EoyAsset(items, asset.name) IN
         IF e # 0 /\ items[e].amount > 0
         THEN Some(Frac(items[e].cost * asset.amount, items[e].amount))
         ELSE None

\* the cost of one asset when there is no usable year-end total
ReportedCostOnly(wallet, asset) ==
    IF HasReportedCost(wallet, asset) THEN Some(Frac(asset.cost_reported[1], 1))
    ELSE None

\* sum of the costs that are not None
RECURSIVE SumCosts(_)
SumCosts(assets) ==
    IF assets = <<>> THEN Frac(0, 1)
    ELSE IF Head(assets).cost = None THEN SumCosts(Tail(assets))
         ELSE FracAdd(Head(assets).cost[1], SumCosts(Tail(assets)))

Zero == Some(Frac(0, 1))

RECURSIVE SumField(_, _)
SumField(items, f) == IF items = <<>> THEN 0 ELSE Head(items)[f] + SumField(Tail(items), f)

\* a variant of WalletCosted that gives an asset the year-end data cannot
\* cost its share of the total cost by value
WalletCostedByPortfolioShare(items, total_cost, w) ==
    IF w.assets = <<>> THEN [w EXCEPT !.cost = Zero, !.proportion = Zero]
    ELSE LET assets == [k \in 1..Len(w.assets) |->
                           [w.assets[k] EXCEPT !.cost =
                               IF AssetCost(items, w, w.assets[k]) # None
                               THEN AssetCost(items, w, w.assets[k])
                               ELSE Some(Frac(w.assets[k].value * total_cost, SumField(items, "value")))]]
             wallet_cost == SumCosts(assets)
         IN  [w EXCEPT !.assets = assets,
                       !.cost = Some(wallet_cost),
                       !.proportion = IF total_cost > 0
                                      THEN Some(Frac(Num(wallet_cost), Den(wallet_cost) * total_cost))
                                      ELSE Zero]

\* one wallet, year-end total value positive
WalletCosted(items, total_cost, w) ==
    IF w.assets = <<>> THEN [w EXCEPT !.cost = Zero, !.proportion = Zero]
    ELSE LET assets == [k \in 1..Len(w.assets) |->
                           [w.assets[k] EXCEPT !.cost = AssetCost(items, w, w.assets[k])]]
             wallet_cost == SumCosts(assets)
         IN  [w EXCEPT !.assets = assets,
                       !.cost = Some(wallet_cost),
                       !.proportion = IF total_cost > 0
                                      THEN Some(Frac(Num(wallet_cost), Den(wallet_cost) * total_cost))
                                      ELSE Zero]

\* one wallet, year-end total value zero or less (keep_proportion) or no
\* year-end items at all
WalletUncosted(w, keep_proportion) ==
    IF w.assets = <<>>
    THEN [w EXCEPT !.cost = Zero, !.proportion = IF keep_proportion THEN @ ELSE Zero]
    ELSE LET assets == [k \in 1..Len(w.assets) |->
                           [w.assets[k] EXCEPT !.cost = IF w.is_new_format
                                                        THEN ReportedCostOnly(w, w.assets[k])
                                                        ELSE None]]
         IN  [w EXCEPT !.assets = assets,
                       !.cost = IF w.is_new_format THEN Some(SumCosts(assets)) ELSE Zero,
                       !.proportion = Zero]

\* a variant of _calculate_proportional_cost that reads the cost of a
\* year-end record as the cost of one unit
_calculate_proportional_cost_PerUnit(items, details) ==
    IF items # <<>>
    THEN LET total_value == SumField(items, "value")
             total_cost == SumField(items, "cost")
             unit == [k \in 1..Len(items) |-> [items[k] EXCEPT !.amount = IF @ > 0 THEN 10 ELSE @]]
         IN  IF total_value > 0
             THEN [k \in 1..Len(details) |-> WalletCosted(unit, total_cost, details[k])]
             ELSE [k \in 1..Len(details) |-> WalletUncosted(details[k], TRUE)]
    ELSE [k \in 1..Len(details) |-> WalletUncosted(details[k], FALSE)]

_calculate_proportional_cost(items, details) ==
    IF items # <<>>
    THEN LET total_value == SumField(items, "value")
             total_cost == SumField(items, "cost")
         IN  IF total_value > 0
             THEN [k \in 1..Len(details) |-> WalletCosted(items, total_cost, details[k])]
             ELSE [k \in 1..Len(details) |-> WalletUncosted(details[k], TRUE)]
    ELSE [k \in 1..Len(details) |-> WalletUncosted(details[k], FALSE)]

CalculateProportionalCost ==
    /\ pc = "cost"
    /\ wallet_details' = _calculate_proportional_cost(end_of_year_items, wallet_details)
    /\ pc' = "describe"
    /\ UNCHANGED <<text, report_year, end_of_year_items, scan_locals, final_df, csv>>
    /\ UNCHANGED numeric_vars
    /\ UNCHANGED cli_vars

(***************************************************************************)
(* The descriptions of process_report                                      *)
(***************************************************************************)
\* str(x) of a float given in tenths
FloatStr(a) == NatStr(a \div 10) \o <<".">> \o NatStr(a % 10)

\* format(Decimal(str(asset_amount)), 'f').replace('.', ',')
AmountStr(a) == ReplaceChar(FloatStr(a), ".", ",")

s_saldo == <<"S","A","L","D","O"," ","D","E"," ">>
s_custodiado == <<" ","C","U","S","T","O","D","I","A","D","O"," ">>
s_na_exchange == <<"N","A"," ","E","X","C","H","A","N","G","E">>
s_na_carteira == <<"N","A"," ","C","A","R","T","E","I","R","A">>
s_na_rede == <<"N","A"," ","R","E","D","E"," ">>
s_em == <<" ","E","M"," ","3","1","/","1","2","/">>

\* a variant of NetworkPart that names the network whatever the blockchain
\* field says
NetworkPartAlways(w) ==
    LET wallet_address == AddressMatch(w.wallet_name_raw) IN
    s_na_rede \o w.blockchain
    \o (IF wallet_address # <<>> THEN <<" ">> \o wallet_address ELSE <<>>)

\* network_part of a wallet that is not an exchange
NetworkPart(w) ==
    LET wallet_address == AddressMatch(w.wallet_name_raw) IN
    IF w.blockchain # s_NONE
    THEN s_na_rede \o w.blockchain
         \o (IF wallet_address # <<>> THEN <<" ">> \o wallet_address ELSE <<>>)
    ELSE <<>>

\* asset['irpf_description']
Description(w, asset, year) ==
    Upper(s_saldo \o AmountStr(asset.amount) \o <<" ">> \o asset.name \o s_custodiado
          \o (IF w.exchange # s_NONE
              THEN s_na_exchange \o <<" ">> \o w.exchange
              ELSE s_na_carteira \o <<" ">> \o w.wallet_name \o <<" ">> \o NetworkPart(w))
          \o s_em \o year \o <<".">>)

GenerateDescriptions ==
    /\ pc = "describe"
    /\ wallet_details' =
          [k \in 1..Len(wallet_details) |->
              [wallet_details[k] EXCEPT !.assets =
                  [a \in 1..Len(@) |->
                      [@[a] EXCEPT !.irpf_description =
                          Some(Description(wallet_details[k], wallet_details[k].assets[a], report_year[1]))]]]]
    /\ pc' = "frames"
    /\ UNCHANGED <<text, report_year, end_of_year_items, scan_locals, final_df, csv>>
    /\ UNCHANGED numeric_vars
    /\ UNCHANGED cli_vars

(***************************************************************************)
(* _create_dataframes                                                      *)
(***************************************************************************)
s_ticker == <<"T","i","c","k","e","r">>
s_qtd == <<"Q","t","d">>
s_custo == <<"C","u","s","t","o"," ","R","$"," ","3","1","/","1","2","/">>
s_discriminacao == <<"D","i","s","c","r","i","m","i","n","a","ç","ã","o">>
s_placeholder == <<"V","e","r","i","f","i","c","a","r"," ","n","o"," ","K","o","i","n","l","y"," ","-"," ","C","u","s","t","o"," ","n","ã","o"," ","e","n","c","o","n","t","r","a","d","o">>
s_unknown_year == <<"?","?","?","?">>

\* a variant of CustoColumn that never knows the year
CustoColumnUnknown(year) == s_custo \o s_unknown_year

\* the name of the cost column
CustoColumn(year) == s_custo \o (IF year # None THEN year[1] ELSE s_unknown_year)

\* round(n / d) to an integer, ties to even (n >= 0, d > 0)
RoundHalfEven(n, d) ==
    LET q == n \div d
        r == n % d
    IN  IF 2 * r > d THEN q + 1
        ELSE IF 2 * r = d THEN q + (q % 2)
        ELSE q

\* f"{cost:.2f}"
Fixed2(f) ==
    LET neg == Num(f) < 0
        cents == RoundHalfEven(100 * (IF neg THEN 0 - Num(f) ELSE Num(f)), Den(f))
    IN  (IF neg THEN <<"-">> ELSE <<>>)
        \o NatStr(cents \div 100) \o <<".">>
        \o NatStr((cents % 100) \div 10) \o NatStr(cents % 10)

\* a variant of CostStr that writes an unknown cost as zero
CostStrZero(cost) ==
    IF cost = None THEN <<"0", ",", "0", "0">>
    ELSE LET f == cost[1] IN
         IF Num(f) > 0 /\ 100 * Num(f) < Den(f) THEN <<"0", ",", "0", "0">>
         ELSE ReplaceChar(Fixed2(f), ".", ",")

\* cost_str of a row
CostStr(cost) ==
    IF cost = None THEN s_placeholder
    ELSE LET f == cost[1] IN
         IF Num(f) > 0 /\ 100 * Num(f) < Den(f) THEN <<"0", ",", "0", "0">>
         ELSE ReplaceChar(Fixed2(f), ".", ",")

\* qtd_str of a row
QtdStr(asset) ==
    IF asset.amount_raw # None THEN ReplaceChar(asset.amount_raw[1], ".", ",")
    ELSE ReplaceChar(FloatStr(asset.amount), ".", ",")

\* one dict of assets_rows: the keys in insertion order and their values
AssetRow(asset, year) ==
    [keys |-> <<s_ticker, s_qtd, CustoColumn(year), s_discriminacao>>,
     vals |-> <<asset.name, QtdStr(asset), CostStr(asset.cost),
                IF asset.irpf_description # None THEN asset.irpf_description[1] ELSE <<>>>>]

\* assets_rows: the assets of every wallet, wallet after wallet
RECURSIVE AssetsRows(_, _)
AssetsRows(details, year) ==
    IF details = <<>> THEN <<>>
    ELSE [a \in 1..Len(Head(details).assets) |-> AssetRow(Head(details).assets[a], year)]
         \o AssetsRows(Tail(details), year)

\* pd.DataFrame(rows): the columns are the keys of the dicts, none when
\* there is no dict
DataFrame(rows) ==
    [columns |-> IF rows = <<>> THEN <<>> ELSE rows[1].keys,
     data |-> [r \in 1..Len(rows) |-> rows[r].vals]]

_create_dataframes(details, year) ==
    IF details # <<>>
    THEN DataFrame(AssetsRows(details, year))
    ELSE [columns |-> <<s_ticker, s_qtd, CustoColumn(year), s_discriminacao>>, data |-> <<>>]

CreateDataframes ==
    /\ pc = "frames"
    /\ final_df' = Some(_create_dataframes(wallet_details, report_year))
    /\ pc' = "save"
    /\ UNCHANGED <<text, report_year, end_of_year_items, wallet_details, scan_locals, csv>>
    /\ UNCHANGED numeric_vars
    /\ UNCHANGED cli_vars

(***************************************************************************)
(* save_to_csv                                                             *)
(***************************************************************************)
ColumnIndex(df, col) ==
    LET hits == {c \in 1..Len(df.columns) : df.columns[c] = col} IN
    IF hits = {} THEN 0 ELSE CHOOSE c \in hits : TRUE

\* df[columns], a column the frame does not have being filled with ''
Selected(df, columns) ==
    [columns |-> columns,
     data |-> [r \in 1..Len(df.data) |->
                 [c \in 1..Len(columns) |->
                     IF ColumnIndex(df, columns[c]) = 0 THEN <<>>
                     ELSE df.data[r][ColumnIndex(df, columns[c])]]]]

\* the frame after the missing required columns were added to it
WithColumns(df, required_columns) ==
    Selected(df, df.columns \o SelectSeq(required_columns, LAMBDA c : ColumnIndex(df, c) = 0))

SaveToCsv ==
    /\ pc = "save"
    /\ LET required_columns == <<s_ticker, s_qtd, CustoColumn(report_year), s_discriminacao>> IN
       /\ final_df' = Some(WithColumns(final_df[1], required_columns))
       /\ csv' = Some(Selected(WithColumns(final_df[1], required_columns), required_columns))
    /\ pc' = "done"
    /\ UNCHANGED <<text, report_year, end_of_year_items, wallet_details, scan_locals>>
    /\ UNCHANGED numeric_vars
    /\ UNCHANGED cli_vars

(***************************************************************************)
(* Specification                                                           *)
(***************************************************************************)
Next ==
    \/ ExtractText
    \/ ParseEoy
    \/ StartWalletScan
    \/ ScanLine
    \/ EndScan
    \/ BscFix
    \/ CalculateProportionalCost
    \/ GenerateDescriptions
    \/ CreateDataframes
    \/ SaveToCsv

Spec == Init /\ [][Next]_vars

(***************************************************************************)
(* Properties                                                              *)
(***************************************************************************)
AfterScan == pc \in {"bsc", "cost", "describe", "frames", "save", "done"}
AfterBscFix == pc \in {"cost", "describe", "frames", "save", "done"}
AfterCost == pc \in {"describe", "frames", "save", "done"}
AfterDescriptions == pc \in {"frames", "save", "done"}
AfterDataframes == pc \in {"save", "done"}

\* the holdings of all wallets, wallet after wallet, each with the index of
\* its wallet
RECURSIVE HoldingsFrom(_, _)
HoldingsFrom(details, k) ==
    IF k > Len(details) THEN <<>>
    ELSE [a \in 1..Len(details[k].assets) |-> [w |-> k, asset |-> details[k].assets[a]]]
         \o HoldingsFrom(details, k + 1)

Holdings == HoldingsFrom(wallet_details, 1)

\* the wallet list did not come from the built-in sample
ParsedWallets == text.wallet_marker /\ wallet_details # <<>> /\ wallet_details[1].wallet_name_raw # sample_wallet_data[1].wallet_name_raw

\* the document yields no year-end data
NoYearEndData == ~ text.eoy_title \/ ~ text.eoy_header \/ EoyItems(EoyTable(text)) = <<>>

\* a description uses the phrase
Uses(asset, phrase) ==
    asset.irpf_description # None /\ Contains(asset.irpf_description[1], phrase)

\* C1: a wallet whose title contains a BSC keyword is never classified as the
\* exchange Binance after the BSC fix step: its exchange field is not
\* 'Binance' and no description of its holdings says NA EXCHANGE BINANCE.
C1_BscTitleNeverBinance ==
    AfterBscFix =>
        \A k \in 1..Len(wallet_details) :
            HasBscKeyword(wallet_details[k].wallet_name_raw) =>
                /\ wallet_details[k].exchange # s_Binance
                /\ \A a \in 1..Len(wallet_details[k].assets) :
                      ~ Uses(wallet_details[k].assets[a], <<"N","A"," ","E","X","C","H","A","N","G","E"," ","B","I","N","A","N","C","E">>)

\* a text that reads as a number
IsNumericText(s) == s # <<>> /\ \A c \in 1..Len(s) : s[c] \in {"0","1","2","3","4","5","6","7","8","9",",","-"}

\* the cell of row r of the exported table under the cost column
CostCell(r) == csv[1].data[r][3]

\* C2: in the exported table the cost field of a row is the placeholder text
\* exactly when the cost of the row's holding is None, and the cost field of
\* a holding without cost never reads as a number.
C2_PlaceholderIffNoCost ==
    pc = "done" =>
        /\ Len(csv[1].data) = Len(Holdings)
        /\ \A r \in 1..Len(Holdings) :
              /\ (CostCell(r) = s_placeholder) <=> (Holdings[r].asset.cost = None)
              /\ Holdings[r].asset.cost = None => ~ IsNumericText(CostCell(r))

C2_Witness ==
    /\ pc = "done"
    /\ ParsedWallets
    /\ \E r \in 1..Len(Holdings) : Holdings[r].asset.cost = None /\ CostCell(r) = s_placeholder
    /\ \E r \in 1..Len(Holdings) : Holdings[r].asset.cost # None /\ IsNumericText(CostCell(r))

\* C3: after cost attribution a holding whose data line carried a cost has
\* that cost as its attributed cost.
C3_ReportedCostVerbatim ==
    AfterCost =>
        \A r \in 1..Len(Holdings) :
            Holdings[r].asset.cost_reported # None =>
                /\ Holdings[r].asset.cost # None
                /\ FracEq(Holdings[r].asset.cost[1], Frac(Holdings[r].asset.cost_reported[1], 1))

\* the year-end record of an asset: the index of the item, 0 for none
Record(name) == EoyAsset(end_of_year_items, name)

TotalValue == SumField(end_of_year_items, "value")
TotalCost == SumField(end_of_year_items, "cost")

\* C4 as stated: a holding without reported cost whose asset has a year-end
\* record of positive value is costed (holding.value / record.value) *
\* record.total_cost.
C4_CostByValueShare ==
    AfterCost =>
        \A r \in 1..Len(Holdings) :
            LET h == Holdings[r].asset
                e == Record(h.name)
            IN  (h.cost_reported = None /\ e # 0 /\ end_of_year_items[IF e = 0 THEN 1 ELSE e].value > 0) =>
                    /\ h.cost # None
                    /\ FracEq(h.cost[1], Frac(h.value * end_of_year_items[e].cost, end_of_year_items[e].value))

\* C4 as amended: a holding without reported cost whose asset has a year-end
\* record of positive quantity is costed, when the year-end values add up to
\* more than zero, (record.total_cost / record.quantity) * holding.amount.
C4_CostByAmountShare ==
    AfterCost =>
        \A r \in 1..Len(Holdings) :
            LET h == Holdings[r].asset
                e == Record(h.name)
            IN  (h.cost_reported = None /\ TotalValue > 0 /\ e # 0 /\ end_of_year_items[IF e = 0 THEN 1 ELSE e].amount > 0) =>
                    /\ h.cost # None
                    /\ FracEq(h.cost[1], Frac(end_of_year_items[e].cost * h.amount, end_of_year_items[e].amount))

\* a parsed holding costed from a record whose quantity share and value share
\* differ
C4_Witness ==
    /\ AfterCost
    /\ ParsedWallets
    /\ \E r \in 1..Len(Holdings) :
          LET h == Holdings[r].asset
              e == Record(h.name)
          IN  /\ h.cost_reported = None /\ h.cost # None /\ e # 0
              /\ end_of_year_items[IF e = 0 THEN 1 ELSE e].value > 0
              /\ h.value * end_of_year_items[e].amount # h.amount * end_of_year_items[e].value

\* C5 as stated: a holding without reported cost whose asset has no year-end
\* record (or a record of no positive value) is costed by its share of the
\* overall portfolio value, (holding.value / total value) * total cost.
C5_CostByPortfolioShare ==
    AfterCost =>
        \A r \in 1..Len(Holdings) :
            LET h == Holdings[r].asset
                e == Record(h.name)
            IN  (h.cost_reported = None /\ (e = 0 \/ end_of_year_items[IF e = 0 THEN 1 ELSE e].value <= 0)) =>
                    /\ h.cost # None
                    /\ TotalValue > 0
                    /\ FracEq(h.cost[1], Frac(h.value * TotalCost, TotalValue))

\* C5 as amended: a holding without reported cost whose asset has no year-end
\* record, or a record of no positive quantity, or met when the year-end
\* values add up to zero or less, is left without cost.
C5_NoRecordNoCost ==
    AfterCost =>
        \A r \in 1..Len(Holdings) :
            LET h == Holdings[r].asset
                e == Record(h.name)
            IN  (h.cost_reported = None
                 /\ (e = 0 \/ end_of_year_items[IF e = 0 THEN 1 ELSE e].amount <= 0 \/ TotalValue <= 0)) =>
                    h.cost = None

\* a parsed holding of an asset the year-end records do not have, while the
\* portfolio has a positive value and cost to share out
C5_Witness ==
    /\ AfterCost
    /\ ParsedWallets
    /\ TotalValue > 0 /\ TotalCost > 0
    /\ \E r \in 1..Len(Holdings) :
          /\ Holdings[r].asset.cost_reported = None
          /\ Record(Holdings[r].asset.name) = 0
          /\ Holdings[r].asset.value > 0
          /\ Holdings[r].asset.cost = None

\* the holdings of an asset, as indexes into Holdings
HoldingsOf(name) == {r \in 1..Len(Holdings) : Holdings[r].asset.name = name}

\* the holding took its cost from the year-end data
CostedFromYearEnd(r) ==
    /\ Holdings[r].asset.cost # None
    /\ ~ HasReportedCost(wallet_details[Holdings[r].w], Holdings[r].asset)

RECURSIVE CostSum(_)
CostSum(rs) ==
    IF rs = {} THEN Frac(0, 1)
    ELSE LET r == CHOOSE x \in rs : TRUE
         IN  Lowest(FracAdd(Holdings[r].asset.cost[1], CostSum(rs \ {r})))

RECURSIVE AmountSum(_)
AmountSum(rs) ==
    IF rs = {} THEN 0
    ELSE LET r == CHOOSE x \in rs : TRUE IN Holdings[r].asset.amount + AmountSum(rs \ {r})

\* the year-end records that cost at least one holding and all holdings of
\* their asset
CostingRecords ==
    {e \in 1..Len(end_of_year_items) :
        /\ e = Record(end_of_year_items[e].asset)
        /\ end_of_year_items[e].value > 0
        /\ HoldingsOf(end_of_year_items[e].asset) # {}
        /\ \A r \in HoldingsOf(end_of_year_items[e].asset) : CostedFromYearEnd(r)}

C7_NoYearEndDataNoCost ==
    (AfterCost /\ NoYearEndData) =>
        \A r \in 1..Len(Holdings) :
            Holdings[r].asset.cost_reported = None =>
                /\ Holdings[r].asset.cost = None
                /\ pc = "done" => CostCell(r) = s_placeholder

\* C8: after the wallet section is parsed the total value of every wallet is
\* the sum of the values of its holdings.
C8_TotalValueIsSum ==
    AfterScan =>
        \A k \in 1..Len(wallet_details) :
            wallet_details[k].total_value = Some(SumField(wallet_details[k].assets, "value"))

\* a parsed wallet with two holdings, its total computed
C8_Witness ==
    /\ AfterScan
    /\ ParsedWallets
    /\ \E k \in 1..Len(wallet_details) :
          /\ Len(wallet_details[k].assets) >= 2
          /\ wallet_details[k].total_value = Some(4)

EndsWith(s, sub) == OccursAt(s, sub, Len(s) - Len(sub) + 1)

\* C9: the final table of process_report has the four columns in order, the
\* year of the cost column being the year of every description, and one row
\* per holding in wallet order and holding order.
C9_FinalTableShape ==
    AfterDataframes =>
        /\ \E y \in {s_2023, s_2026} :
              /\ final_df[1].columns = <<s_ticker, s_qtd, s_custo \o y, s_discriminacao>>
              /\ \A r \in 1..Len(final_df[1].data) : EndsWith(final_df[1].data[r][4], s_em \o y \o <<".">>)
        /\ Len(final_df[1].data) = Len(Holdings)
        /\ \A r \in 1..Len(Holdings) :
              /\ final_df[1].data[r][1] = Holdings[r].asset.name
              /\ Holdings[r].asset.irpf_description = Some(final_df[1].data[r][4])

\* the text of a description between CUSTODIADO and the date
CustodyPhrase(d) ==
    LET from == CHOOSE p \in 1..Len(d) : OccursAt(d, s_custodiado, p) /\ \A q \in 1..(p - 1) : ~ OccursAt(d, s_custodiado, q)
        to == CHOOSE p \in 1..Len(d) : OccursAt(d, s_em, p) /\ \A q \in (p + 1)..Len(d) : ~ OccursAt(d, s_em, q)
    IN  SubSeq(d, from + Len(s_custodiado), to - 1)

\* C10: a description says NA EXCHANGE <exchange> exactly when the wallet is
\* classified as an exchange; otherwise it says NA CARTEIRA <wallet name>,
\* followed by NA REDE <network> exactly when the wallet has a network; the
\* holdings of one wallet share their custody phrase.
C10_CustodyPhrase ==
    AfterDescriptions =>
        \A k \in 1..Len(wallet_details) :
            LET w == wallet_details[k] IN
            \A a \in 1..Len(w.assets) :
                LET phrase == CustodyPhrase(w.assets[a].irpf_description[1])
                    carteira == Upper(s_na_carteira \o <<" ">> \o w.wallet_name)
                IN  /\ StartsWith(phrase, s_na_exchange \o <<" ">>) <=> w.exchange # s_NONE
                    /\ w.exchange # s_NONE => phrase = Upper(s_na_exchange \o <<" ">> \o w.exchange)
                    /\ w.exchange = s_NONE =>
                          /\ StartsWith(phrase, carteira)
                          /\ Contains(phrase, s_na_rede) <=> w.blockchain # s_NONE
                          /\ w.blockchain # s_NONE =>
                                OccursAt(phrase, <<" ">> \o s_na_rede \o Upper(w.blockchain), Len(carteira) + 1)
                    /\ \A b \in 1..Len(w.assets) :
                          CustodyPhrase(w.assets[b].irpf_description[1]) = phrase

\* a parsed wallet that is no exchange and has no network, its holding
\* described
C10_Witness ==
    /\ AfterDescriptions
    /\ ParsedWallets
    /\ \E k \in 1..Len(wallet_details) :
          /\ wallet_details[k].exchange = s_NONE
          /\ wallet_details[k].blockchain = s_NONE
          /\ Len(wallet_details[k].assets) >= 1
          /\ wallet_details[k].assets[1].irpf_description # None

\* C9 as amended: the final table of process_report has one row per holding
\* in wallet order and holding order; it has the four columns, the year of
\* the cost column being the year of every description, whenever there is a
\* holding, and no column when there is none; the exported table has the
\* four columns and the same rows in every case.
C9_FinalTableShapeWithHoldings ==
    AfterDataframes =>
        /\ \E y \in {s_2023, s_2026} :
              /\ Holdings # <<>> => final_df[1].columns = <<s_ticker, s_qtd, s_custo \o y, s_discriminacao>>
              /\ (Holdings = <<>> /\ pc = "save") => final_df[1].columns = <<>>
              /\ pc = "done" =>
                    /\ csv[1].columns = <<s_ticker, s_qtd, s_custo \o y, s_discriminacao>>
                    /\ Len(csv[1].data) = Len(Holdings)
                    /\ Holdings # <<>> => csv[1].data = final_df[1].data
              /\ \A r \in 1..Len(final_df[1].data) : EndsWith(final_df[1].data[r][4], s_em \o y \o <<".">>)
        /\ Len(final_df[1].data) = Len(Holdings)
        /\ \A r \in 1..Len(Holdings) :
              /\ final_df[1].data[r][1] = Holdings[r].asset.name
              /\ Holdings[r].asset.irpf_description = Some(final_df[1].data[r][4])

\* the table of two wallets that both have holdings, before export
C9_Witness ==
    /\ pc = "save"
    /\ Len(wallet_details) >= 2
    /\ wallet_details[1].assets # <<>>
    /\ wallet_details[2].assets # <<>>
    /\ Len(final_df[1].data) >= Len(wallet_details[1].assets) + Len(wallet_details[2].assets)
    /\ final_df[1].data[Len(wallet_details[1].assets) + 1][1] = wallet_details[2].assets[1].name
    /\ Len(final_df[1].columns) = 4

\* the ellipsis a truncated address ends with
Ellipses == {<<".", ".", ".">>}

\* the text shows a proper prefix of the address followed by an ellipsis
ShowsTruncated(d, address) ==
    \E n \in 1..(Len(address) - 1), dots \in Ellipses :
        \/ Contains(d, SubSeq(address, 1, n) \o dots)
        \/ Contains(d, Upper(SubSeq(address, 1, n)) \o dots)

\* C11: every description of a holding of a wallet that is no exchange and
\* has an address, from its title or from a 'Wallet address:' line, shows
\* the address cut to a short prefix followed by an ellipsis.
C11_AddressTruncatedWithEllipsis ==
    AfterDescriptions =>
        \A k \in 1..Len(wallet_details) :
            (wallet_details[k].exchange = s_NONE /\ wallet_details[k].address # None) =>
                \A a \in 1..Len(wallet_details[k].assets) :
                    ShowsTruncated(wallet_details[k].assets[a].irpf_description[1],
                                   wallet_details[k].address[1])

(***************************************************************************)
(* _clean_numeric_str                                                      *)
(***************************************************************************)
MaxToken == 4

\* the characters of a token: digits, the two separators, sign,
\* parentheses, a currency glyph that is also a letter, a space
TokenChars == {"1", "2", ".", ",", "-", "(", ")", "R", " "}

RECURSIVE TokensOfLength(_)
TokensOfLength(n) ==
    IF n = 0 THEN {<<>>}
    ELSE {<<c>> \o t : c \in TokenChars, t \in TokensOfLength(n - 1)}

Tokens == UNION {TokensOfLength(n) : n \in 0..MaxToken}

\* re.sub(r"[R$€£¥]", "", s)
CurrencyGlyphs == {"R", "$", "€", "£", "¥"}

\* s without the characters of the set
Without(s, chars) == SelectSeq(s, LAMBDA c : c \notin chars)

\* str.count(c)
Count(s, c) == Cardinality({k \in 1..Len(s) : s[k] = c})

\* str.rfind(c), positions counted from 1 and 0 for not found
RFind(s, c) ==
    LET hits == {k \in 1..Len(s) : s[k] = c} IN
    IF hits = {} THEN 0 ELSE CHOOSE k \in hits : \A h \in hits : k >= h

\* "".join(parts)
RECURSIVE Join(_)
Join(parts) == IF parts = <<>> THEN <<>> ELSE Head(parts) \o Join(Tail(parts))

IsDigit(c) == \E d \in 1..10 : DigitChars[d] = c

\* a variant of CleanString that takes the comma for the decimal character
\* whenever the token has one
CleanStringCommaDecimal(str, remove_currency) ==
    LET s1 == IF remove_currency THEN Without(str, CurrencyGlyphs) ELSE str
        s2 == Without(Strip(s1), {" "})
        s3 == IF Count(s2, ",") > 0 THEN ReplaceChar(Without(s2, {"."}), ",", ".") ELSE s2
        s4 == SelectSeq(s3, LAMBDA c : IsDigit(c) \/ c = "." \/ c = "-")
        s5 == IF Count(s4, ".") > 1
              THEN LET parts == Split(s4, <<".">>)
                   IN  parts[1] \o <<".">> \o Join(Tail(parts))
              ELSE s4
        s6 == IF s5 # <<>> /\ Count(Tail(s5), "-") > 0
              THEN (IF s5[1] = "-" THEN <<"-">> ELSE <<>>) \o Without(s5, {"-"})
              ELSE s5
    IN  IF s6 = <<>> \/ s6 = <<".">> \/ s6 = <<"-">> THEN <<"0">> ELSE s6

\* the body of _clean_numeric_str once num_str is a string
CleanString(str, remove_currency) ==
    LET s1 == IF remove_currency THEN Without(str, CurrencyGlyphs) ELSE str
        s2 == Without(Strip(s1), {" "})
        s3 == IF Count(s2, ",") > 0 /\ Count(s2, ".") > 0
              THEN IF RFind(s2, ".") > RFind(s2, ",")
                   THEN Without(s2, {","})
                   ELSE ReplaceChar(Without(s2, {"."}), ",", ".")
              ELSE IF Count(s2, ",") > 0 THEN ReplaceChar(s2, ",", ".")
              ELSE s2
        s4 == SelectSeq(s3, LAMBDA c : IsDigit(c) \/ c = "." \/ c = "-")
        s5 == IF Count(s4, ".") > 1
              THEN LET parts == Split(s4, <<".">>)
                   IN  parts[1] \o <<".">> \o Join(Tail(parts))
              ELSE s4
        s6 == IF s5 # <<>> /\ Count(Tail(s5), "-") > 0
              THEN (IF s5[1] = "-" THEN <<"-">> ELSE <<>>) \o Without(s5, {"-"})
              ELSE s5
    IN  IF s6 = <<>> \/ s6 = <<".">> \/ s6 = <<"-">> THEN <<"0">> ELSE s6

\* KoinlyProcessor._clean_numeric_str; the argument is None or a string
_clean_numeric_str(arg, remove_currency) ==
    IF arg = None THEN <<"0">> ELSE CleanString(arg[1], remove_currency)

\* a variant of ParensToMinus that drops both parentheses
ParensDropped(raw) == Without(raw, {"(", ")"})

\* raw.replace('(', '-').replace(')', ''), what the parsers do to a cost,
\* value or price group before they clean it
ParensToMinus(raw) == Without(ReplaceChar(raw, "(", "-"), {")"})

\* float(s) returns: an optional sign, digits around at most one point, a
\* digit at least (s is made of digits, points and minus signs)
FloatAccepts(s) ==
    LET body == IF s # <<>> /\ s[1] \in {"-", "+"} THEN Tail(s) ELSE s IN
    /\ \A k \in 1..Len(body) : IsDigit(body[k]) \/ body[k] = "."
    /\ Count(body, ".") <= 1
    /\ \E k \in 1..Len(body) : IsDigit(body[k])

\* a token is given to the function
InitNumeric ==
    /\ Constructed
    /\ num_str \in {None} \cup {Some(t) : t \in Tokens}
    /\ call = "none"
    /\ cleaned = None
    /\ number = "pending"
    /\ NoMain

\* a call of _clean_numeric_str on the token as it stands
CleanNumericStr ==
    /\ call = "none"
    /\ call' = "direct"
    /\ \E remove_currency \in BOOLEAN :
          cleaned' = Some(_clean_numeric_str(num_str, remove_currency))
    /\ UNCHANGED <<num_str, number>>
    /\ UNCHANGED pipeline_vars
    /\ UNCHANGED cli_vars

\* the call the parsers make for a cost, value or price group
CleanParenthesized ==
    /\ call = "none"
    /\ num_str # None
    /\ call' = "parser"
    /\ cleaned' = Some(_clean_numeric_str(Some(ParensToMinus(num_str[1])), TRUE))
    /\ UNCHANGED <<num_str, number>>
    /\ UNCHANGED pipeline_vars
    /\ UNCHANGED cli_vars

\* float(...) of the result
ToFloat ==
    /\ cleaned # None
    /\ number = "pending"
    /\ number' = IF FloatAccepts(cleaned[1]) THEN "float" ELSE "ValueError"
    /\ UNCHANGED <<num_str, call, cleaned>>
    /\ UNCHANGED pipeline_vars
    /\ UNCHANGED cli_vars

NextNumeric ==
    \/ CleanNumericStr
    \/ CleanParenthesized
    \/ ToFloat

SpecNumeric == InitNumeric /\ [][NextNumeric]_vars

Separators == {".", ","}

\* a token of digits and separators with a digit at least
IsNumericToken(t) ==
    /\ \A k \in 1..Len(t) : IsDigit(t[k]) \/ t[k] \in Separators
    /\ \E k \in 1..Len(t) : IsDigit(t[k])

\* the digits before position p, a point, the digits after it
PointAt(t, p) ==
    Without(SubSeq(t, 1, p - 1), Separators) \o <<".">> \o Without(SubSeq(t, p + 1, Len(t)), Separators)

\* the position of the last separator of the token
LastSeparator(t) == IF RFind(t, ".") > RFind(t, ",") THEN RFind(t, ".") ELSE RFind(t, ",")

\* the position of the first occurrence of the character
Find(t, c) == CHOOSE k \in 1..Len(t) : t[k] = c /\ \A h \in 1..(k - 1) : t[h] # c

\* C12 as stated: a numeric token with both separators is returned with a
\* single point at the position of its last separator and no other
\* separator; a token whose only separator is one comma has it for point.
C12_PointAtLastSeparator ==
    (call = "direct" /\ num_str # None /\ IsNumericToken(num_str[1])) =>
        LET t == num_str[1] IN
        /\ (Count(t, ".") > 0 /\ Count(t, ",") > 0) => cleaned[1] = PointAt(t, LastSeparator(t))
        /\ (Count(t, ".") = 0 /\ Count(t, ",") = 1) => cleaned[1] = ReplaceChar(t, ",", ".")

\* C12 as amended: of the two separator characters the one that occurs last
\* in a numeric token is its decimal character (the comma when there is no
\* point): the result has a single point, at the first occurrence of the
\* decimal character, and no other separator.
C12_PointAtFirstDecimalCharacter ==
    (call = "direct" /\ num_str # None /\ IsNumericToken(num_str[1]) /\ Count(num_str[1], ",") > 0) =>
        LET t == num_str[1]
            decimal == t[LastSeparator(t)]
        IN  cleaned[1] = PointAt(t, Find(t, decimal))

\* a token with both separators, the point last, was cleaned
C12_Witness ==
    /\ call = "direct"
    /\ num_str = Some(<<"1", ",", "2", ".">>)
    /\ cleaned = Some(<<"1", "2", ".">>)

\* the token is a number wrapped in parentheses
IsParenthesized(t) ==
    /\ Len(t) >= 3
    /\ t[1] = "(" /\ t[Len(t)] = ")"
    /\ IsNumericToken(SubSeq(t, 2, Len(t) - 1))

Enclosed(t) == SubSeq(t, 2, Len(t) - 1)

\* C13 as stated: _clean_numeric_str returns the negative of the number a
\* token holds in parentheses.
C13_CleanNegatesParenthesized ==
    (call = "direct" /\ num_str # None /\ IsParenthesized(num_str[1])) =>
        cleaned[1] = <<"-">> \o CleanString(Enclosed(num_str[1]), TRUE)

\* C13 as amended: the parsers, which rewrite '(' to '-' and drop ')' before
\* they call _clean_numeric_str, get the negative of the number a cost,
\* value or price group holds in parentheses; _clean_numeric_str called on
\* the group as it stands drops the parentheses and returns the number
\* without sign.
C13_ParsersNegateParenthesized ==
    (num_str # None /\ IsParenthesized(num_str[1])) =>
        /\ call = "parser" => cleaned[1] = <<"-">> \o CleanString(Enclosed(num_str[1]), TRUE)
        /\ call = "direct" => cleaned[1] = CleanString(Enclosed(num_str[1]), TRUE)

\* the group "(12)" was cleaned by a parser
C13_Witness ==
    /\ call = "parser"
    /\ num_str = Some(<<"(", "1", "2", ")">>)
    /\ cleaned = Some(<<"-", "1", "2">>)
    /\ number = "float"

\* an optional leading minus sign, digits around at most one point, a digit
\* at least
IsDecimalLiteral(s) ==
    LET body == IF s # <<>> /\ s[1] = "-" THEN Tail(s) ELSE s IN
    /\ \A k \in 1..Len(body) : IsDigit(body[k]) \/ body[k] = "."
    /\ Count(body, ".") <= 1
    /\ \E k \in 1..Len(body) : IsDigit(body[k])

\* C14: whatever the token, _clean_numeric_str returns a decimal literal,
\* '0' when the token has no digit, and float() of the result never fails.
C14_AlwaysDecimalLiteral ==
    /\ cleaned # None =>
          /\ IsDecimalLiteral(cleaned[1])
          /\ (num_str = None \/ \A k \in 1..Len(num_str[1]) : ~ IsDigit(num_str[1][k])) => cleaned[1] = <<"0">>
    /\ number # "ValueError"

AfterEoy == pc \notin {"extract", "eoy"}

\* the record _parse_eoy_section makes of a line of the table
EoyRecord(l) == [asset |-> l.asset, amount |-> l.quantity, value |-> l.value, cost |-> l.cost]

\* C15: the year-end records are the sample records exactly when the title
\* is missing, no header follows it or the table yields no record; in any
\* other case every record comes from a line of the table; the records are
\* never empty and never hold sample records beside parsed ones.
C15_SampleIffNothingParsed ==
    AfterEoy =>
        /\ end_of_year_items = sample_eoy_data <=> NoYearEndData
        /\ ~ NoYearEndData =>
              /\ \A k \in 1..Len(end_of_year_items) :
                    \E j \in 1..Len(EoyTable(text)) :
                        EoyTable(text)[j].matched /\ end_of_year_items[k] = EoyRecord(EoyTable(text)[j])
              /\ \A k \in 1..Len(end_of_year_items), j \in 1..Len(sample_eoy_data) :
                    end_of_year_items[k] # sample_eoy_data[j]
        /\ end_of_year_items # <<>>

\* a table with title and header whose only line is not a record, the
\* sample records in its place
C15_Witness ==
    /\ AfterEoy
    /\ text.eoy_title /\ text.eoy_header
    /\ text.eoy_lines = <<e_junk>>
    /\ end_of_year_items = sample_eoy_data

\* the wallets are the sample wallets, whatever was added to them since
SampleWallets(details) ==
    /\ Len(details) = Len(sample_wallet_data)
    /\ \A k \in 1..Len(details) :
          /\ details[k].wallet_name_raw = sample_wallet_data[k].wallet_name_raw
          /\ details[k].total_value = sample_wallet_data[k].total_value
          /\ Len(details[k].assets) = Len(sample_wallet_data[k].assets)
          /\ \A a \in 1..Len(details[k].assets) :
                /\ details[k].assets[a].name = sample_wallet_data[k].assets[a].name
                /\ details[k].assets[a].amount = sample_wallet_data[k].assets[a].amount
                /\ details[k].assets[a].value = sample_wallet_data[k].assets[a].value

\* C16: without the marker 'Balances per Wallet' the wallet parser returns
\* the sample wallets as they are, and process_report goes on with them:
\* they are costed, their holdings described and exported, one row each.
C16_NoMarkerSampleWallets ==
    ~ text.wallet_marker =>
        /\ pc = "bsc" => wallet_details = sample_wallet_data
        /\ AfterScan => SampleWallets(wallet_details)
        /\ AfterCost => \A k \in 1..Len(wallet_details) : wallet_details[k].cost # None
        /\ AfterDescriptions => \A r \in 1..Len(Holdings) : Holdings[r].asset.irpf_description # None
        /\ AfterDataframes => Len(final_df[1].data) = Len(HoldingsFrom(sample_wallet_data, 1))
        /\ pc = "done" => Len(csv[1].data) = Len(HoldingsFrom(sample_wallet_data, 1))

\* the export of a document without the marker: the six sample holdings
C16_Witness ==
    /\ pc = "done"
    /\ ~ text.wallet_marker
    /\ SampleWallets(wallet_details)
    /\ Len(csv[1].data) = 6

(***************************************************************************)
(* main (cli.py): one file, or every *.pdf of a directory                  *)
(***************************************************************************)
MaxFiles == 3

\* a PDF file: the text pdfplumber extracts, the year of its title and of its
\* name, the non-empty lines after 'Balances per Wallet'
Document(t, title_year, filename_year, ls) ==
    [text |-> t, title_year |-> title_year, filename_year |-> filename_year, lines |-> ls]

\* a report of one wallet in the old layout
d_old == Document(Text(TRUE, TRUE, <<e_btc>>, TRUE), Some(s_2023), None,
                  <<l_title_trezor, l_old_header, l_data_btc>>)
\* a report of one wallet in the layout with the Cost column
d_new == Document(Text(TRUE, TRUE, <<e_btc>>, TRUE), None, Some(s_2023),
                  <<l_title_ledger, l_new_header, l_data_btc_cost, l_total_cost>>)
\* a PDF that is no Koinly report: no title, no marker, no year
d_bare == Document(Text(FALSE, FALSE, <<>>, FALSE), None, None, <<>>)

Documents == {d_old, d_new, d_bare}

RECURSIVE SeqsOfLength(_, _)
SeqsOfLength(S, n) ==
    IF n = 0 THEN {<<>>}
    ELSE {Append(q, x) : q \in SeqsOfLength(S, n - 1), x \in S}

\* list(dir_path.glob('*.pdf'))
Directories == UNION {SeqsOfLength(Documents, n) : n \in 0..MaxFiles}

\* args, with what the file system answers about the path: whether it exists
\* (and, for --dir, is a directory), whether its name ends in .pdf, and the
\* PDF files it names
Arguments ==
    {[mode |-> "file", exists |-> e, is_pdf |-> p, pdf_files |-> <<d>>] :
        e \in BOOLEAN, p \in BOOLEAN, d \in Documents}
    \cup {[mode |-> "dir", exists |-> TRUE, is_pdf |-> FALSE, pdf_files |-> fs] : fs \in Directories}
    \cup {[mode |-> "dir", exists |-> FALSE, is_pdf |-> FALSE, pdf_files |-> <<>>]}

InitCli ==
    /\ Constructed
    /\ NoNumber
    /\ args \in {Some(a) : a \in Arguments}
    /\ cli_pc = "start"
    /\ file_index = 0
    /\ attempts = <<>>
    /\ results = <<>>
    /\ errors_logged = <<>>
    /\ exit_code = None

\* return n
Return(n) ==
    /\ exit_code' = Some(n)
    /\ cli_pc' = "returned"

\* KoinlyProcessor(pdf_file), where every field is assigned afresh, but for
\* one field of the processor before it
NewProcessorKeepsDetails(k) ==
    /\ file_index' = k
    /\ attempts' = Append(attempts, k)
    /\ cli_pc' = "process"
    /\ pc' = "extract"
    /\ text' = NoText
    /\ report_year' = None
    /\ end_of_year_items' = <<>>
    /\ wallet_details' = wallet_details
    /\ wallet_details_temp' = <<>>
    /\ current_wallet_info' = initial_wallet_info
    /\ header_found_for_current_wallet' = FALSE
    /\ last_captured_address' = None
    /\ is_new_format_wallet' = FALSE
    /\ i' = 0
    /\ address_read_at' = 0
    /\ final_df' = None
    /\ csv' = None

\* processor = KoinlyProcessor(pdf_file), of the k-th file
NewProcessor(k) ==
    /\ file_index' = k
    /\ attempts' = Append(attempts, k)
    /\ cli_pc' = "process"
    /\ pc' = "extract"
    /\ text' = NoText
    /\ report_year' = None
    /\ end_of_year_items' = <<>>
    /\ wallet_details' = <<>>
    /\ wallet_details_temp' = <<>>
    /\ current_wallet_info' = initial_wallet_info
    /\ header_found_for_current_wallet' = FALSE
    /\ last_captured_address' = None
    /\ is_new_format_wallet' = FALSE
    /\ i' = 0
    /\ address_read_at' = 0
    /\ final_df' = None
    /\ csv' = None

\* the file a single run is given does not exist
FileNotFound ==
    /\ cli_pc = "start"
    /\ args[1].mode = "file"
    /\ ~ args[1].exists
    /\ Return(1)
    /\ UNCHANGED <<args, file_index, attempts, results, errors_logged>>
    /\ UNCHANGED pipeline_vars
    /\ UNCHANGED numeric_vars

\* its name does not end in .pdf
FileNotPdf ==
    /\ cli_pc = "start"
    /\ args[1].mode = "file"
    /\ args[1].exists
    /\ ~ args[1].is_pdf
    /\ Return(1)
    /\ UNCHANGED <<args, file_index, attempts, results, errors_logged>>
    /\ UNCHANGED pipeline_vars
    /\ UNCHANGED numeric_vars

SingleFile ==
    /\ cli_pc = "start"
    /\ args[1].mode = "file"
    /\ args[1].exists
    /\ args[1].is_pdf
    /\ NewProcessor(1)
    /\ UNCHANGED <<args, results, errors_logged, exit_code>>
    /\ UNCHANGED numeric_vars

\* the directory does not exist, or holds no *.pdf
DirectoryUnusable ==
    /\ cli_pc = "start"
    /\ args[1].mode = "dir"
    /\ (~ args[1].exists \/ args[1].pdf_files = <<>>)
    /\ Return(1)
    /\ UNCHANGED <<args, file_index, attempts, results, errors_logged>>
    /\ UNCHANGED pipeline_vars
    /\ UNCHANGED numeric_vars

\* for pdf_file in pdf_files: the first file
Directory ==
    /\ cli_pc = "start"
    /\ args[1].mode = "dir"
    /\ args[1].exists
    /\ args[1].pdf_files # <<>>
    /\ NewProcessor(1)
    /\ UNCHANGED <<args, results, errors_logged, exit_code>>
    /\ UNCHANGED numeric_vars

\* for pdf_file in pdf_files: the next file
NextFile ==
    /\ cli_pc = "loop"
    /\ file_index < Len(args[1].pdf_files)
    /\ NewProcessor(file_index + 1)
    /\ UNCHANGED <<args, results, errors_logged, exit_code>>
    /\ UNCHANGED numeric_vars

\* the loop is over: a batch with a logged error returns 1
BatchDoneCountsErrors ==
    /\ cli_pc = "loop"
    /\ file_index = Len(args[1].pdf_files)
    /\ Return(IF errors_logged = <<>> THEN 0 ELSE 1)
    /\ UNCHANGED <<args, file_index, attempts, results, errors_logged>>
    /\ UNCHANGED pipeline_vars
    /\ UNCHANGED numeric_vars

\* the loop is over: return 0
BatchDone ==
    /\ cli_pc = "loop"
    /\ file_index = Len(args[1].pdf_files)
    /\ Return(0)
    /\ UNCHANGED <<args, file_index, attempts, results, errors_logged>>
    /\ UNCHANGED pipeline_vars
    /\ UNCHANGED numeric_vars

\* pdf_file of the loop, file_path of a single run
pdf_file == args[1].pdf_files[file_index]

\* a step of processor.process_report() or processor.save_to_csv() on pdf_file
ProcessorStep ==
    /\ cli_pc = "process"
    /\ \/ ExtractTextOf(pdf_file.text, pdf_file.title_year, pdf_file.filename_year)
       \/ ParseEoy
       \/ StartWalletScan
       \/ (i < Len(pdf_file.lines) /\ ScanLineOf(pdf_file.lines[i + 1]))
       \/ (i = Len(pdf_file.lines) /\ EndScan)
       \/ BscFix
       \/ CalculateProportionalCost
       \/ GenerateDescriptions
       \/ CreateDataframes
       \/ SaveToCsv

\* what a run leaves of a file: the parsed records, their costs, the rows
Output == [outcome |-> "saved", end_of_year_items |-> end_of_year_items,
           wallet_details |-> wallet_details, rows |-> csv]

Failed == [outcome |-> "error", end_of_year_items |-> <<>>,
           wallet_details |-> <<>>, rows |-> None]

\* save_to_csv has returned: the batch goes on, the single run returns 0
FileProcessed ==
    /\ cli_pc = "process"
    /\ pc = "done"
    /\ results' = Append(results, Output)
    /\ IF args[1].mode = "dir"
       THEN cli_pc' = "loop" /\ UNCHANGED exit_code
       ELSE Return(0)
    /\ UNCHANGED <<args, file_index, attempts, errors_logged>>
    /\ UNCHANGED pipeline_vars
    /\ UNCHANGED numeric_vars

\* the exception leaves the loop and reaches the handler of main
BatchExceptPropagates ==
    /\ results' = Append(results, Failed)
    /\ errors_logged' = Append(errors_logged, file_index)
    /\ Return(1)

\* except Exception as e, in the loop: logged, and the loop goes on
BatchExcept ==
    /\ results' = Append(results, Failed)
    /\ errors_logged' = Append(errors_logged, file_index)
    /\ cli_pc' = "loop"
    /\ UNCHANGED exit_code

\* the handler of main returns as if nothing had been raised
MainExceptReturns0 ==
    /\ results' = Append(results, Failed)
    /\ errors_logged' = Append(errors_logged, file_index)
    /\ Return(0)

\* except Exception as e, of main: logged, return 1
MainExcept ==
    /\ results' = Append(results, Failed)
    /\ errors_logged' = Append(errors_logged, file_index)
    /\ Return(1)

\* pdfplumber cannot open the file, or the CSV cannot be written: the
\* exception is re-raised by _extract_text_from_pdf or by save_to_csv
Raise ==
    /\ cli_pc = "process"
    /\ pc \in {"extract", "save"}
    /\ IF args[1].mode = "dir" THEN BatchExcept ELSE MainExcept
    /\ UNCHANGED <<args, file_index, attempts>>
    /\ UNCHANGED pipeline_vars
    /\ UNCHANGED numeric_vars

\* except KeyboardInterrupt: not an Exception, so the loop does not catch it
KeyboardInterrupt ==
    /\ cli_pc \in {"start", "process", "loop"}
    /\ Return(130)
    /\ UNCHANGED <<args, file_index, attempts, results, errors_logged>>
    /\ UNCHANGED pipeline_vars
    /\ UNCHANGED numeric_vars

NextCli ==
    \/ FileNotFound
    \/ FileNotPdf
    \/ SingleFile
    \/ DirectoryUnusable
    \/ Directory
    \/ NextFile
    \/ BatchDone
    \/ ProcessorStep
    \/ FileProcessed
    \/ Raise
    \/ KeyboardInterrupt

SpecCli == InitCli /\ [][NextCli]_vars

(***************************************************************************)
(* Properties of main                                                      *)
(***************************************************************************)
Returned == cli_pc = "returned"

BatchMode == args[1].mode = "dir"

Elements(q) == {q[k] : k \in 1..Len(q)}

\* C17: in batch mode the files are attempted one after another, each once,
\* in the order of the list; an exception raised while a file is processed or
\* saved is logged for that file and main does not return on it; unless the
\* user interrupts, main returns only when every file was attempted (or when
\* there was nothing to attempt), and then with 0.
C17_BatchAttemptsEveryFile ==
    BatchMode =>
        /\ attempts = [k \in 1..Len(attempts) |-> k]
        /\ Len(attempts) <= Len(args[1].pdf_files)
        /\ \A k \in 1..Len(results) :
              results[k].outcome = "error" <=> k \in Elements(errors_logged)
        /\ Len(errors_logged) = Cardinality(Elements(errors_logged))
        /\ (Returned /\ exit_code # Some(130)) =>
              \/ /\ exit_code = Some(0)
                 /\ Len(attempts) = Len(args[1].pdf_files)
                 /\ Len(results) = Len(args[1].pdf_files)
              \/ /\ exit_code = Some(1)
                 /\ (~ args[1].exists \/ args[1].pdf_files = <<>>)
                 /\ attempts = <<>>

\* a batch of three files has returned 0: the second failed, the third was saved
C17_Witness ==
    /\ BatchMode
    /\ Returned
    /\ exit_code = Some(0)
    /\ Len(results) >= 3
    /\ results[2].outcome = "error"
    /\ results[3].outcome = "saved"
    /\ errors_logged = <<2>>

\* C18: in single-file mode no processor is constructed for a path that does
\* not exist or does not end in .pdf, and main then returns 1 (130 if the user
\* interrupted it first); main returns 1 when processing or saving raised, 130
\* when it was interrupted before the file was finished, and 0 exactly when
\* process_report and save_to_csv have both completed, the CSV being written.
C18_SingleFileExitCodes ==
    ~ BatchMode =>
        /\ (~ args[1].exists \/ ~ args[1].is_pdf) => attempts = <<>>
        /\ Len(attempts) <= 1
        /\ Returned =>
              /\ exit_code \in {Some(0), Some(1), Some(130)}
              /\ exit_code = Some(1) <=>
                    \/ results # <<>> /\ results[1].outcome = "error"
                    \/ attempts = <<>> /\ (~ args[1].exists \/ ~ args[1].is_pdf)
                                       /\ exit_code # Some(130)
              /\ exit_code = Some(0) <=> (results # <<>> /\ results[1].outcome = "saved")
              /\ exit_code = Some(0) => (pc = "done" /\ csv # None /\ results[1].rows = csv)
              /\ exit_code = Some(130) <=> results = <<>> /\ exit_code # Some(1)
              /\ (attempts = <<1>> /\ results = <<>>) => exit_code = Some(130)

\* a single file was processed and saved, and main returned 0
C18_Witness ==
    /\ ~ BatchMode
    /\ Returned
    /\ exit_code = Some(0)
    /\ attempts = <<1>>
    /\ pc = "done"
    /\ Len(csv[1].data) > 0

\* the cases of C18 that return 1 and 130
C18_WitnessFailures ==
    /\ ~ BatchMode
    /\ Returned
    /\ \/ exit_code = Some(1) /\ attempts = <<>> /\ ~ args[1].is_pdf /\ args[1].exists
       \/ exit_code = Some(1) /\ attempts = <<1>> /\ pc = "save"
       \/ exit_code = Some(130) /\ attempts = <<1>>

\* the documents of the run that were processed and saved
Saved == {k \in 1..Len(results) : results[k].outcome = "saved"}

\* nothing was attempted before the k-th file of the run
Alone(k) == k = 1

\* C19: what a run leaves of a document (parsed year-end records, wallet
\* records with their costs, exported rows) depends on the document only: two
\* files of a batch that hold the same document leave the same output,
\* wherever they stand and whatever was processed or failed between them; in
\* particular the output equals that of the document standing first, where
\* no processor existed before its own.
C19_OutputDependsOnDocumentOnly ==
    \A j \in Saved, k \in Saved :
        args[1].pdf_files[j] = args[1].pdf_files[k] => results[j] = results[k]

\* a document without wallet section was saved first and again third, after
\* a report with parsed wallets (saved) or a failing file in between
C19_Witness ==
    /\ BatchMode
    /\ {1, 3} \subseteq Saved
    /\ Alone(1)
    /\ args[1].pdf_files[1] = d_bare
    /\ args[1].pdf_files[3] = d_bare
    /\ args[1].pdf_files[2] = d_old
    /\ results[2].wallet_details # <<>>
    /\ SampleWallets(results[3].wallet_details)

(***************************************************************************)
(* process_wallet_details_for_bsc called on wallet details of any          *)
(* blockchain value (test_reports/test_bsc_fix.py)                         *)
(***************************************************************************)
MaxWallets == 2

s_ethereum == <<"e","t","h","e","r","e","u","m">>
s_BNB_Smart_Chain == <<"B","N","B"," ","S","m","a","r","t"," ","C","h","a","i","n">>

\* the raw names of the test wallets, and one with an address part
RawNames == {<<"B","i","n","a","n","c","e"," ","E","x","c","h","a","n","g","e">>, <<"M","e","t","a","m","a","s","k"," ","B","S","C">>, <<"T","r","u","s","t"," ","W","a","l","l","e","t"," ","(","B","S","C",")">>,
             <<"B","i","n","a","n","c","e"," ","S","m","a","r","t"," ","C","h","a","i","n"," ","W","a","l","l","e","t">>, <<"M","y"," ","B","N","B"," ","W","a","l","l","e","t">>, <<"L","e","d","g","e","r"," ","-"," ","0","x","a","b","c","d">>}

\* the blockchain values a wallet detail comes with
Blockchains == {s_NONE, s_ethereum, s_Exchange, s_BSC}

\* a wallet detail as the test builds them
TestWallet(raw, bc) == Wallet(raw, raw, bc, s_NONE, None, <<>>, None)

TestWallets == {TestWallet(raw, bc) : raw \in RawNames, bc \in Blockchains}

WalletLists == UNION {SeqsOfLength(TestWallets, n) : n \in 1..MaxWallets}

\* the function is about to be called on a list of wallet details
InitBscFix ==
    /\ pc = "bsc"
    /\ wallet_details \in WalletLists
    /\ text = NoText
    /\ report_year = None
    /\ end_of_year_items = <<>>
    /\ wallet_details_temp = <<>>
    /\ current_wallet_info = initial_wallet_info
    /\ header_found_for_current_wallet = FALSE
    /\ last_captured_address = None
    /\ is_new_format_wallet = FALSE
    /\ i = 0
    /\ address_read_at = 0
    /\ final_df = None
    /\ csv = None
    /\ NoNumber
    /\ NoMain

NextBscFix == BscFix

SpecBscFix == InitBscFix /\ [][NextBscFix]_vars

\* the raw name contains 'BSC', 'Binance Smart Chain' or 'BNB'
NamesBsc(raw) ==
    \/ Contains(raw, s_BSC)
    \/ Contains(raw, <<"B","i","n","a","n","c","e"," ","S","m","a","r","t"," ","C","h","a","i","n">>)
    \/ Contains(raw, s_BNB)

\* C20: after process_wallet_details_for_bsc the blockchain field of every
\* wallet detail whose raw name contains 'BSC', 'Binance Smart Chain' or
\* 'BNB' contains 'BNB Smart Chain', whatever it was before.
C20_BscMarkedBnbSmartChain ==
    pc = "cost" =>
        \A k \in 1..Len(wallet_details) :
            NamesBsc(wallet_details[k].wallet_name_raw) =>
                Contains(wallet_details[k].blockchain, s_BNB_Smart_Chain)

\* the raw name contains no BSC keyword: none of the names the function
\* searches for, none of the keywords of the test, in any case
NoBscKeyword(raw) ==
    /\ ~ HasBscKeyword(raw)
    /\ ~ NamesBsc(raw)
    /\ \A k \in 1..Len(bsc_names) : ~ Contains(Lower(raw), bsc_names[k])
    /\ ~ Contains(Lower(raw), Lower(s_BNB))

\* C21: process_wallet_details_for_bsc returns a list of the same length, and
\* every wallet detail whose raw name contains no BSC keyword is in it at the
\* same position with every field unchanged.
C21_NoKeywordUnchanged ==
    [][pc = "bsc" =>
          /\ Len(wallet_details') = Len(wallet_details)
          /\ \A k \in 1..Len(wallet_details) :
                NoBscKeyword(wallet_details[k].wallet_name_raw) =>
                    wallet_details'[k] = wallet_details[k]]_vars

(***************************************************************************)
(* Properties of the wallet scan, step by step                             *)
(***************************************************************************)
\* the rule the specification gives a line: the first that matches, in the
\* order total cost, currency data, column header, address, total value, title
Rule(l) ==
    IF "total_cost" \in l.m THEN "total_cost"
    ELSE IF "data" \in l.m THEN "data"
    ELSE IF "new_header" \in l.m \/ "old_header" \in l.m THEN "header"
    ELSE IF "address" \in l.m THEN "address"
    ELSE IF "total_value" \in l.m THEN "total_value"
    ELSE IF "title" \in l.m THEN "title"
    ELSE "none"

\* no WalletGroup is opened or renamed by the step
SameWallets ==
    /\ Len(wallet_details_temp') = Len(wallet_details_temp)
    /\ \A k \in 1..Len(wallet_details_temp) :
          wallet_details_temp'[k].wallet_name_raw = wallet_details_temp[k].wallet_name_raw

\* no holding is added or changed by the step
SameHoldings ==
    \A k \in 1..Len(wallet_details_temp) :
        /\ k <= Len(wallet_details_temp')
        /\ wallet_details_temp'[k].assets = wallet_details_temp[k].assets

\* one line of the wallet section of a document, any of ScanLines
ScanWalletLine ==
    /\ i < MaxLines
    /\ \E l \in ScanLines : ScanLineOf(l)

\* the scan of the wallet section of one document, line by line
NextScan ==
    \/ ExtractTextOf(d_old.text, d_old.title_year, d_old.filename_year)
    \/ ParseEoy
    \/ StartWalletScan
    \/ ScanWalletLine

SpecScan == Init /\ [][NextScan]_vars

\* what only the rule of the line may do, and nothing of the other rules
OnlyRule(l) ==
    LET r == Rule(l) IN
    /\ r = "total_cost" =>
          /\ SameWallets /\ SameHoldings
          /\ UNCHANGED <<current_wallet_info, header_found_for_current_wallet,
                         last_captured_address, is_new_format_wallet>>
    /\ r = "data" =>
          /\ SameWallets
          /\ UNCHANGED <<current_wallet_info, header_found_for_current_wallet,
                         last_captured_address>>
    /\ r = "header" =>
          /\ SameWallets /\ SameHoldings
          /\ header_found_for_current_wallet'
          /\ UNCHANGED <<current_wallet_info, last_captured_address>>
    /\ r = "address" =>
          /\ last_captured_address' = Some(l.address)
          /\ UNCHANGED <<wallet_details_temp, current_wallet_info,
                         header_found_for_current_wallet, is_new_format_wallet>>
    /\ r = "total_value" =>
          /\ ~ header_found_for_current_wallet'
          /\ UNCHANGED <<wallet_details_temp, current_wallet_info,
                         last_captured_address, is_new_format_wallet>>
    /\ r = "title" =>
          /\ SameHoldings
          /\ Len(wallet_details_temp') <= Len(wallet_details_temp) + 1
    /\ r = "none" =>
          UNCHANGED <<wallet_details_temp, current_wallet_info,
                      header_found_for_current_wallet, last_captured_address,
                      is_new_format_wallet>>

\* C22: every line of the wallet section is handled by the first rule that
\* matches it, in the fixed order, and by no other: a line that matches
\* nothing changes no parser state, and a line that matches the currency-data
\* pattern (the title pattern too, or not) opens no WalletGroup.
C22_FirstMatchingRuleOnly ==
    [][\A l \in ScanLines : ScanLineOf(l) => OnlyRule(l)]_vars

\* "USD Coin 1 1 1", which the title pattern matches too, was read as a
\* holding of the one wallet there is
C22_Witness ==
    /\ pc = "scan"
    /\ Len(wallet_details_temp) = 1
    /\ \E a \in 1..Len(wallet_details_temp[1].assets) :
          wallet_details_temp[1].assets[a].name = l_data_usd.currency

\* the step is a title line that switches to a different wallet
Switches(l) ==
    Rule(l) = "title" /\ current_wallet_info'.name # current_wallet_info.name

\* a column header has been read since the last title line that switched to a
\* different wallet and since the last total-value line: how this fact
\* changes with a line, h being the fact before the line
HeaderSince(h, l) ==
    IF Rule(l) = "header" THEN TRUE
    ELSE IF Rule(l) = "total_value" \/ Switches(l) THEN FALSE
    ELSE h

\* C23: the header flag of the scan says, after every line, whether a column
\* header has been read since the last title line that switched to a different
\* wallet and since the last total-value line (at the start it has not), and a
\* currency-data line read when it has not adds no holding and changes no
\* WalletGroup.
C23_HoldingOnlyAfterHeader ==
    [][\A l \in ScanLines : ScanLineOf(l) =>
          /\ header_found_for_current_wallet' = HeaderSince(header_found_for_current_wallet, l)
          /\ (Rule(l) = "data" /\ ~ header_found_for_current_wallet) =>
                wallet_details_temp' = wallet_details_temp
          /\ (pc' = "scan" /\ i = 0) => ~ header_found_for_current_wallet]_vars

\* a title, a column header, a data line and a total-value line were read:
\* the wallet has its holding and the header state is closed
C23_Witness ==
    /\ pc = "scan"
    /\ i = 4
    /\ Len(wallet_details_temp) = 1
    /\ Len(wallet_details_temp[1].assets) = 1
    /\ ~ header_found_for_current_wallet
    /\ current_wallet_info.name = wallet_details_temp[1].wallet_name

\* the step appends one holding to a WalletGroup
HoldingAdded ==
    \E k \in 1..Len(wallet_details_temp) :
        /\ k <= Len(wallet_details_temp')
        /\ Len(wallet_details_temp'[k].assets) = Len(wallet_details_temp[k].assets) + 1

\* C24: a currency-data line read while the header flag is set is appended as
\* a holding to a WalletGroup, whatever lines came before it.
C24_DataLineNeverDiscarded ==
    [][\A l \in WalletLines :
          (ScanLineOf(l) /\ Rule(l) = "data" /\ header_found_for_current_wallet) =>
              HoldingAdded]_vars

\* the cleaned name of a title line
CleanedName(l) ==
    _clean_wallet_name(IF l.g1 # None THEN Strip(l.g1[1]) ELSE <<"U","n","k","n","o","w","n">>)

\* the step opens a WalletGroup for the title l, without holdings
Opens(l) ==
    /\ Len(wallet_details_temp') = Len(wallet_details_temp) + 1
    /\ SubSeq(wallet_details_temp', 1, Len(wallet_details_temp)) = wallet_details_temp
    /\ wallet_details_temp'[Len(wallet_details_temp')].wallet_name_raw = l.text
    /\ wallet_details_temp'[Len(wallet_details_temp')].wallet_name = CleanedName(l)
    /\ wallet_details_temp'[Len(wallet_details_temp')].assets = <<>>

\* the wallet of the title becomes the current one, the flags are reset
BecomesCurrent(l) ==
    /\ current_wallet_info'.name = CleanedName(l)
    /\ ~ header_found_for_current_wallet'
    /\ ~ is_new_format_wallet'

\* a title of the name of the current wallet: no WalletGroup is created, the
\* current wallet and the header flag stay
StaysCurrent ==
    /\ SameWallets /\ SameHoldings
    /\ current_wallet_info'.name = current_wallet_info.name
    /\ UNCHANGED header_found_for_current_wallet

\* C25 as claimed: a title line whose cleaned name differs from the name of
\* the current wallet opens a new WalletGroup for the title, without holdings,
\* makes it current and resets the header and format flags; a title line of
\* the same name creates none and leaves the current wallet and the header
\* flag as they are.
C25_TitleOpensWalletGroup ==
    [][\A l \in ScanLines : (ScanLineOf(l) /\ Rule(l) = "title") =>
          IF CleanedName(l) # current_wallet_info.name
          THEN Opens(l) /\ BecomesCurrent(l)
          ELSE StaysCurrent]_vars

\* C25, amended: a title line whose cleaned name differs from the name of the
\* current wallet makes that name current and resets the header and format
\* flags; it opens a new WalletGroup without holdings unless the section
\* already has a WalletGroup of the same raw title, which is then kept as it
\* is, holdings included, and none is created. A title line of the same name
\* creates none and leaves the name of the current wallet and the header flag.
C25_TitleOpensOrReopens ==
    [][\A l \in ScanLines : (ScanLineOf(l) /\ Rule(l) = "title") =>
          IF CleanedName(l) # current_wallet_info.name
          THEN /\ BecomesCurrent(l)
               /\ IF \E k \in 1..Len(wallet_details_temp) :
                        wallet_details_temp[k].wallet_name_raw = l.text
                  THEN wallet_details_temp' = wallet_details_temp
                  ELSE Opens(l)
          ELSE StaysCurrent]_vars

\* 'Trezor', another title, 'Trezor' again: two WalletGroups, the first one
\* current again
C25_Witness ==
    /\ pc = "scan"
    /\ i = 3
    /\ Len(wallet_details_temp) = 2
    /\ current_wallet_info.name = wallet_details_temp[1].wallet_name
    /\ wallet_details_temp[1].wallet_name # wallet_details_temp[2].wallet_name

\* the step gives the cached address to the k-th WalletGroup: the title has
\* no address of its own and the WalletGroup is new, or had no address
AttachesCached(l, k) ==
    /\ last_captured_address # None
    /\ l.g3 = None
    /\ k \in 1..Len(wallet_details_temp')
    /\ wallet_details_temp'[k].address = last_captured_address
    /\ k <= Len(wallet_details_temp) => wallet_details_temp[k].address # last_captured_address

\* C26: an address read from a 'Wallet address:' line is given only to the
\* wallet that was current when the line was read or to the first WalletGroup
\* opened after the line, never to one opened later; and once given it is
\* cached no longer, so that no second WalletGroup gets it.
C26_AddressOnlyToNextWallet ==
    [][\A l \in ScanLines : (ScanLineOf(l) /\ Rule(l) = "title") =>
          \A k \in 1..Len(wallet_details_temp') :
              AttachesCached(l, k) =>
                  /\ Len(wallet_details_temp) = address_read_at
                  /\ k <= Len(wallet_details_temp) =>
                        wallet_details_temp[k].wallet_name = current_wallet_info.name
                  /\ last_captured_address' = None]_vars

\* the k-th WalletGroup of the step is the same wallet before and after
SameWalletAt(before, after, k) ==
    /\ k <= Len(after)
    /\ after[k].wallet_name_raw = before[k].wallet_name_raw
    /\ Len(after[k].assets) = Len(before[k].assets)

\* C27: a WalletGroup opened by the scan stays in the result through the end
\* of the scan, the BSC step and cost attribution, and one without holdings
\* leaves cost attribution with cost 0 and proportion 0, whatever the
\* year-end data.
C27_EmptyWalletKeptAtZero ==
    [][/\ (pc = "scan" /\ pc' = "bsc") =>
             \A k \in 1..Len(wallet_details_temp) :
                 SameWalletAt(wallet_details_temp, wallet_details', k)
       /\ (pc \in {"bsc", "cost"} /\ pc' # "extract") =>
             \A k \in 1..Len(wallet_details) :
                 SameWalletAt(wallet_details, wallet_details', k)
       /\ (pc = "cost" /\ pc' = "describe") =>
             \A k \in 1..Len(wallet_details) :
                 wallet_details[k].assets = <<>> =>
                     /\ wallet_details'[k].cost = Zero
                     /\ wallet_details'[k].proportion = Zero]_vars

(***************************************************************************)
(* A wallet section of titles, column headers and data lines, long enough  *)
(* for a wallet to be opened, left and opened again                        *)
(***************************************************************************)
MaxSectionLines == 5

SectionLines == {l_title_ledger, l_title_trezor, l_title_bsc, l_old_header, l_data_btc, l_total_value}

\* one line of such a section
ScanSectionLine ==
    /\ i < MaxSectionLines
    /\ \E l \in SectionLines : ScanLineOf(l)

NextSection ==
    \/ ExtractTextOf(d_old.text, d_old.title_year, d_old.filename_year)
    \/ ParseEoy
    \/ StartWalletScan
    \/ ScanSectionLine

SpecSection == Init /\ [][NextSection]_vars

\* the WalletGroups that gain a holding by the step
Gaining ==
    {k \in 1..Len(wallet_details_temp) :
        /\ k <= Len(wallet_details_temp')
        /\ Len(wallet_details_temp'[k].assets) > Len(wallet_details_temp[k].assets)}

\* C28: a holding is stored in one WalletGroup only, that of the most recent
\* title line that switched the current wallet: the WalletGroup that gains
\* the holding has the name of the current wallet, also when the raw title
\* differs from the cleaned name and when the title re-opened a wallet seen
\* earlier.
C28_HoldingInCurrentWallet ==
    [][\A l \in WalletLines : (ScanLineOf(l) /\ Rule(l) = "data") =>
          /\ Cardinality(Gaining) <= 1
          /\ \A k \in Gaining :
                wallet_details_temp[k].wallet_name = current_wallet_info.name]_vars

(***************************************************************************)
(* The year-end records and the wallet section                             *)
(***************************************************************************)
\* the records the year-end parser can make of the lines between the column
\* header and the marker 'Balances per Wallet'
YearEndSectionRecords == {EoyRecord(text.eoy_lines[j]) : j \in {k \in 1..Len(text.eoy_lines) : text.eoy_lines[k].matched}}

\* the year-end records parsed from the document, none when the sample
\* records stand in their place
ParsedRecords ==
    IF end_of_year_items = sample_eoy_data THEN {}
    ELSE {end_of_year_items[k] : k \in 1..Len(end_of_year_items)}

\* C29: every record the year-end parser makes comes from a line between the
\* column header and the marker 'Balances per Wallet'; no line of the wallet
\* section becomes a year-end record, whether the year-end table has a
\* 'Total' line of its own or not.
C29_RecordsFromYearEndSection ==
    AfterEoy => ParsedRecords \subseteq YearEndSectionRecords

(***************************************************************************)
(* The exit code of a batch                                                *)
(***************************************************************************)
\* the directory exists, is a directory and holds at least one PDF
UsableDirectory == args[1].exists /\ args[1].pdf_files # <<>>

Interrupted == exit_code = Some(130)

====
